---- MODULE Spec2Model ----
(***************************************************************************)
(* WeeChat core configuration (src/core/wee-config.c): the typed options   *)
(* of weechat.rc, their change callbacks, the day-change timer, the        *)
(* "bars" and "keys" section readers and writers, and reload.              *)
(*                                                                         *)
(* A C string is a sequence of one-character strings; NULL is a pointer    *)
(* that is no string.  Functions of the repository that wee-config.c only  *)
(* calls (config_file_*, gui_bar_new, gui_keyboard_*, string_explode,      *)
(* hook_timer, unhook) are modelled from the specification.                *)
(***************************************************************************)
EXTENDS Integers, Sequences, FiniteSets, TLC

VARIABLES
    weechat_config_file,        \* pointer to the configuration file
    started,                    \* config_weechat_read has run (startup is over)
    options,                    \* value of every declared option
    hooks,                      \* the live timer hooks
    config_day_change_timer,    \* hook id, 0 is NULL
    gui_infobar_refresh_timer,  \* hook id, 0 is NULL
    gui_bars,                   \* list of bars
    gui_keys,                   \* list of key bindings
    gui_buffers,                \* list of buffers, each with its lines
    config_look_day_change_time_format,  \* value of this string option
    gui_add_hotlist,            \* flag: printing adds the buffer to the hotlist
    gui_current_window,         \* the current window of the gui, 0 is NULL
    killed,                     \* the process was killed by a signal
    last                        \* the operation that led to this state

vars == <<weechat_config_file, started, options, hooks, config_day_change_timer,
          gui_infobar_refresh_timer, gui_bars, gui_keys, gui_buffers,
          config_look_day_change_time_format, gui_add_hotlist,
          gui_current_window, killed, last>>

(***************************************************************************)
(* Bounds of the model                                                     *)
(***************************************************************************)
MaxBars == 2    \* number of bar names in use, and of live bars
MaxKeys == 2    \* number of distinct key names in use
MaxBuffers == 2 \* number of buffers opened
MaxLines == 2   \* number of lines a buffer is let to grow to
MaxUndefinedReads == 2  \* undefined reads of an operation that differ

(***************************************************************************)
(* C strings and libc                                                      *)
(***************************************************************************)
NULL == <<"NULL">>

\* A pointer to a string that config_file_free has released
DANGLING == <<"DANGLING">>

\* A string of bytes that the program has not determined
UNSPECIFIED == <<"UNSPECIFIED">>

\* Op(v), with v evaluated once: a statement after a statement
With(v, Op(_)) == CHOOSE r \in {Op(x) : x \in {v}} : TRUE

INT_MAX == 2147483647
INT_MIN == -INT_MAX - 1

Limb == 65536
HalfLimb == 32768

IsDigit(c) == c \in {"0", "1", "2", "3", "4", "5", "6", "7", "8", "9"}

DigitVal(c) ==
    CASE c = "0" -> 0 [] c = "1" -> 1 [] c = "2" -> 2 [] c = "3" -> 3
      [] c = "4" -> 4 [] c = "5" -> 5 [] c = "6" -> 6 [] c = "7" -> 7
      [] c = "8" -> 8 [] c = "9" -> 9

DigitChar(d) == <<"0", "1", "2", "3", "4", "5", "6", "7", "8", "9">>[d + 1]

Lowercase == <<"a","b","c","d","e","f","g","h","i","j","k","l","m","n","o","p","q","r","s","t","u","v","w","x","y","z">>
Uppercase == <<"A","B","C","D","E","F","G","H","I","J","K","L","M","N","O","P","Q","R","S","T","U","V","W","X","Y","Z">>

tolower(c) ==
    IF \E i \in 1..26 : Uppercase[i] = c
    THEN Lowercase[CHOOSE i \in 1..26 : Uppercase[i] = c]
    ELSE c

toupper(c) ==
    IF \E i \in 1..26 : Lowercase[i] = c
    THEN Uppercase[CHOOSE i \in 1..26 : Lowercase[i] = c]
    ELSE c

StrLower(s) == [i \in 1..Len(s) |-> tolower(s[i])]
StrUpper(s) == [i \in 1..Len(s) |-> toupper(s[i])]

\* The character of the C string s at index f; the string ends with '\0'
NUL == "\\0"
At(s, f) == IF f <= Len(s) THEN s[f] ELSE NUL

\* a / b and a % b of C, which truncate toward zero (b > 0)
Quot(a, b) == IF a >= 0 THEN a \div b ELSE -((-a) \div b)
Rem(a, b) == a - b * Quot(a, b)

\* string_strcasecmp (a, b) == 0
StrCaseEq(a, b) == StrLower(a) = StrLower(b)

\* strncmp (s + (i - 1), p, strlen (p)) == 0
HasPrefixAt(s, i, p) ==
    /\ i + Len(p) - 1 <= Len(s)
    /\ SubSeq(s, i, i + Len(p) - 1) = p

\* Index of the first character of s at or after i that is not in cs.
RECURSIVE SkipChars(_, _, _)
SkipChars(s, i, cs) ==
    IF i <= Len(s) /\ s[i] \in cs THEN SkipChars(s, i + 1, cs) ELSE i

\* Index of the first character of s at or after i that is not a digit.
RECURSIVE SkipDigits(_, _)
SkipDigits(s, i) ==
    IF i <= Len(s) /\ IsDigit(s[i]) THEN SkipDigits(s, i + 1) ELSE i

\* A 64-bit magnitude is four 16-bit limbs, least significant first;
\* m * 10 + d, with the carry out of the top limb.
MulAdd(m, d) ==
    LET t1 == m.l[1] * 10 + d
        t2 == m.l[2] * 10 + t1 \div Limb
        t3 == m.l[3] * 10 + t2 \div Limb
        t4 == m.l[4] * 10 + t3 \div Limb
    IN  [l |-> <<t1 % Limb, t2 % Limb, t3 % Limb, t4 % Limb>>,
         over |-> m.over \/ t4 \div Limb > 0]

RECURSIVE Magnitude(_, _, _, _)
Magnitude(s, i, j, m) ==
    IF i >= j THEN m
    ELSE With(MulAdd(m, DigitVal(s[i])),
              LAMBDA x : Magnitude(s, i + 1, j, x))

\* The low 32 bits <<lo, hi>> of a magnitude read as a two's complement int.
Signed32(lo, hi) ==
    IF hi < HalfLimb THEN hi * Limb + lo ELSE (hi - Limb) * Limb + lo

\* The low 32 bits of minus the magnitude whose low 32 bits are <<lo, hi>>.
Negated32(lo, hi) ==
    IF lo = 0 THEN Signed32(0, (Limb - hi) % Limb)
    ELSE Signed32(Limb - lo, Limb - 1 - hi)

\* isspace (c), "C" locale: the characters strtol skips before the number.
\* The vertical tab has no escape in a string here and is written "\\v".
isspace == {" ", "\t", "\n", "\\v", "\f", "\r"}

\* strtol (s, &error, 10) with a 64-bit long.  end is the index error points
\* to (Len(s) + 1 is the terminating '\0'); a long does not fit the model's
\* integers, so the result is given by: fits (it is in the range of int),
\* val (its value when it fits), neg (its sign), int (its value converted to
\* int, as "size = number" does).
strtol(s) ==
    LET b == SkipChars(s, 1, isspace)
        hasSign == b <= Len(s) /\ s[b] \in {"-", "+"}
        neg == b <= Len(s) /\ s[b] = "-"
        d == IF hasSign THEN b + 1 ELSE b
        e == SkipDigits(s, d)
        m == Magnitude(s, d, e, [l |-> <<0, 0, 0, 0>>, over |-> FALSE])
        \* LONG_MAX is 2^63 - 1 and LONG_MIN is -2^63
        sat == \/ m.over
               \/ m.l[4] > HalfLimb
               \/ m.l[4] = HalfLimb /\ (~neg \/ m.l[1] + m.l[2] + m.l[3] > 0)
        low == IF sat THEN (IF neg THEN <<0, 0>> ELSE <<Limb - 1, Limb - 1>>)
               ELSE <<m.l[1], m.l[2]>>
        small == ~sat /\ m.l[4] = 0 /\ m.l[3] = 0 /\ m.l[2] < HalfLimb
        minint == ~sat /\ neg /\ m.l[4] = 0 /\ m.l[3] = 0
                  /\ m.l[2] = HalfLimb /\ m.l[1] = 0
        asint == IF neg THEN Negated32(low[1], low[2])
                 ELSE Signed32(low[1], low[2])
    IN  IF e = d
        THEN [end |-> 1, fits |-> TRUE, val |-> 0, neg |-> FALSE, int |-> 0]
        ELSE [end |-> e, fits |-> small \/ minint,
              val |-> IF small \/ minint THEN asint ELSE 0,
              neg |-> neg, int |-> asint]

\* error && (error[0] == '\0')
AtEnd(s, r) == r.end = Len(s) + 1

\* number < n and number > n for a long number and an int n
LongLess(r, n) == IF r.fits THEN r.val < n ELSE r.neg
LongGreater(r, n) == IF r.fits THEN r.val > n ELSE ~r.neg

RECURSIVE DecDigits(_)
DecDigits(n) ==
    IF n < 10 THEN <<DigitChar(n)>>
    ELSE DecDigits(n \div 10) \o <<DigitChar(n % 10)>>

\* printf ("%d", n)
FormatInt(n) ==
    IF n = INT_MIN THEN <<"-","2","1","4","7","4","8","3","6","4","8">>
    ELSE IF n < 0 THEN <<"-">> \o DecDigits(-n)
    ELSE DecDigits(n)

\* printf ("%s", s); glibc prints "(null)" for a NULL string
FormatStr(s) == IF s = NULL THEN <<"(","n","u","l","l",")">> ELSE s

(***************************************************************************)
(* wee-string.c: string_explode (string, separators, 0, 0, &argc)          *)
(***************************************************************************)
RECURSIVE StripLeft(_, _)
StripLeft(s, seps) ==
    IF s # <<>> /\ Head(s) \in seps THEN StripLeft(Tail(s), seps) ELSE s

RECURSIVE StripRight(_, _)
StripRight(s, seps) ==
    IF s # <<>> /\ s[Len(s)] \in seps
    THEN StripRight(SubSeq(s, 1, Len(s) - 1), seps) ELSE s

\* The items of a string that starts and ends with no separator: a run of
\* separators separates two items.
RECURSIVE Items(_, _, _)
Items(s, seps, cur) ==
    IF s = <<>> THEN <<cur>>
    ELSE IF Head(s) \in seps
         THEN <<cur>> \o Items(StripLeft(s, seps), seps, <<>>)
         ELSE Items(Tail(s), seps, Append(cur, Head(s)))

\* argv; argc is Len(argv) and a NULL result has argc 0
string_explode(string, seps) ==
    IF string = NULL \/ string = <<>> THEN <<>>
    ELSE Items(StripRight(StripLeft(string, seps), seps), seps, <<>>)

(***************************************************************************)
(* The state the operations work on, with the log of the running operation *)
(*                                                                         *)
(* An option is its value, -1 when the pointer to it is NULL and -2 when   *)
(* the pointer is dangling (the option was released by config_file_free).  *)
(* A read through a NULL pointer kills the process.  A read through a      *)
(* dangling pointer is undefined: ub is what the undefined reads of the    *)
(* running operation do, one after the other, each -1 when it kills the    *)
(* process, else the value it finds.                                       *)
(***************************************************************************)
Cur ==
    [options |-> options, hooks |-> hooks,
     day_timer |-> config_day_change_timer,
     infobar_timer |-> gui_infobar_refresh_timer,
     bars |-> gui_bars, keys |-> gui_keys, buffers |-> gui_buffers,
     add_hotlist |-> gui_add_hotlist, window |-> gui_current_window,
     killed |-> killed, ub |-> <<>>,
     cbs |-> <<>>, hooked |-> 0, unhooked |-> 0, calls |-> <<>>]

\* The record of an operation: op, its arguments (opt is an option, name and
\* value are strings, file is the number of the file read, 0 for none), its
\* return code, old (the value the option had before, the number of bars or of
\* keys there were before), and what the operation did: the change callbacks
\* it ran (each with the value its option had then) and the numbers of timers
\* hooked and unhooked, the calls made to the gui.
Done(s, op, opt, name, value, file, rc, old) ==
    [op |-> op, opt |-> opt, name |-> name, value |-> value, file |-> file,
     rc |-> rc, old |-> old, cbs |-> s.cbs, hooked |-> s.hooked,
     unhooked |-> s.unhooked, calls |-> s.calls]

Commit(s, rec) ==
    /\ options' = s.options
    /\ hooks' = s.hooks
    /\ config_day_change_timer' = s.day_timer
    /\ gui_infobar_refresh_timer' = s.infobar_timer
    /\ gui_bars' = s.bars
    /\ gui_keys' = s.keys
    /\ gui_buffers' = s.buffers
    /\ gui_add_hotlist' = s.add_hotlist
    /\ killed' = s.killed
    /\ last' = rec
    /\ UNCHANGED <<weechat_config_file, config_look_day_change_time_format,
                   gui_current_window>>

(***************************************************************************)
(* gui-bar.c                                                               *)
(***************************************************************************)
gui_bar_type_str == << <<"r","o","o","t">>, <<"w","i","n","d","o","w","_","a","c","t","i","v","e">>, <<"w","i","n","d","o","w","_","i","n","a","c","t","i","v","e">> >>
gui_bar_position_str == << <<"b","o","t","t","o","m">>, <<"t","o","p">>, <<"l","e","f","t">>, <<"r","i","g","h","t">> >>

\* Index in table of the string s, 0 if it is not there.
SearchStr(table, s) ==
    IF s # NULL /\ \E i \in 1..Len(table) : StrCaseEq(table[i], s)
    THEN CHOOSE i \in 1..Len(table) : StrCaseEq(table[i], s)
    ELSE 0

\* gui_bar_new (plugin, name, type, position, size, separator, items): the
\* bars with the new bar at the end, or the bars as they were (NULL returned)
\* when there is no name or the type or the position is none of the known
\* ones. The new bar is created whatever bars are live.
gui_bar_new(bars, name, type, position, size, separator, items) ==
    LET t == SearchStr(gui_bar_type_str, type)
        p == SearchStr(gui_bar_position_str, position)
    IN  IF name = NULL \/ name = <<>> THEN bars
        ELSE IF t = 0 \/ p = 0 THEN bars
        ELSE Append(bars, [name |-> name, type |-> t - 1, position |-> p - 1,
                           size |-> size, separator |-> separator,
                           items |-> items])

(***************************************************************************)
(* wee-config-file.c: lines written and read                               *)
(***************************************************************************)
\* config_file_write_line (config_file, option_name, value, ...): the line,
\* a section header when value is NULL.
config_file_write_line(option_name, value) ==
    [key |-> option_name, value |-> value]

\* The value config_file_read hands to a reader for a line "key = value":
\* a pair of quotes around the value is removed.
UnquoteValue(v) ==
    IF v # NULL /\ Len(v) > 1
       /\ (\/ v[1] = "\"" /\ v[Len(v)] = "\""
           \/ v[1] = "'" /\ v[Len(v)] = "'")
    THEN SubSeq(v, 2, Len(v) - 1)
    ELSE v

(***************************************************************************)
(* wee-config.c: the "bars" section                                        *)
(***************************************************************************)
config_weechat_read_bar_empty_removes(bars, option_name, value) ==
    IF option_name # NULL
    THEN IF value # NULL /\ value # <<>>
         THEN LET argv == string_explode(value, {";"})
              IN  IF Len(argv) = 5 /\ AtEnd(argv[3], strtol(argv[3]))
                  THEN gui_bar_new(bars, option_name, argv[1], argv[2],
                                   strtol(argv[3]).int,
                                   IF argv[4][1] = "0" THEN 0 ELSE 1, argv[5])
                  ELSE bars
         ELSE SelectSeq(bars, LAMBDA b : b.name # option_name)
    ELSE bars

config_weechat_read_bar_no_end_check(bars, option_name, value) ==
    IF option_name # NULL /\ value # NULL /\ value # <<>>
    THEN LET argv == string_explode(value, {";"})
         IN  IF Len(argv) = 5
             THEN gui_bar_new(bars, option_name, argv[1], argv[2],
                              strtol(argv[3]).int,
                              IF argv[4][1] = "0" THEN 0 ELSE 1, argv[5])
             ELSE bars
    ELSE bars

\* config_weechat_read_bar (data, config_file, option_name, value)
config_weechat_read_bar(bars, option_name, value) ==
    IF option_name # NULL /\ value # NULL /\ value # <<>>
    THEN LET argv == string_explode(value, {";"})
         IN  IF Len(argv) = 5
             THEN LET number == strtol(argv[3])
                  IN  IF AtEnd(argv[3], number)
                      THEN gui_bar_new(bars, option_name, argv[1], argv[2],
                                       number.int,
                                       IF argv[4][1] = "0" THEN 0 ELSE 1,
                                       argv[5])
                      ELSE bars
             ELSE bars
    ELSE bars

\* The line of one bar: "%s;%s;%d;%d;%s"
BarLine(bar) ==
    config_file_write_line(
        bar.name,
        FormatStr(gui_bar_type_str[bar.type + 1]) \o <<";">>
        \o FormatStr(gui_bar_position_str[bar.position + 1]) \o <<";">>
        \o FormatInt(bar.size) \o <<";">>
        \o FormatInt(bar.separator) \o <<";">>
        \o FormatStr(bar.items))

\* config_weechat_write_bars (data, config_file, section_name): the lines
\* written, the section header first.
config_weechat_write_bars(bars, section_name) ==
    <<config_file_write_line(section_name, NULL)>>
    \o [i \in 1..Len(bars) |-> BarLine(bars[i])]

\* The bars after config_file_read has given every line of a "bars" section
\* (the header is no line of it) to the reader.
RECURSIVE ReadBarLines(_, _)
ReadBarLines(bars, lines) ==
    IF lines = <<>> THEN bars
    ELSE With(IF Head(lines).value = NULL THEN bars
              ELSE config_weechat_read_bar(bars, Head(lines).key,
                                           UnquoteValue(Head(lines).value)),
              LAMBDA x : ReadBarLines(x, Tail(lines)))

(***************************************************************************)
(* Inputs                                                                  *)
(***************************************************************************)
AllBarNames == << <<"m","y","b","a","r">>, <<"b","2">>, <<"b","3">> >>
BarNames == {AllBarNames[i] : i \in 1..MaxBars}

BarValues ==
    { NULL, <<>>,
      <<"r","o","o","t",";","t","o","p",";","1",";","1",";","[","t","i","m","e","]">>,
      <<"w","i","n","d","o","w","_","a","c","t","i","v","e",";","b","o","t","t","o","m",";","-","1",";","0",";","a">>,
      <<"r","o","o","t",";","t","o","p",";","x",";","1",";","a">>,
      <<"r","o","o","t",";","t","o","p",";","1","x",";","1",";","a">>,
      <<"r","o","o","t",";","t","o","p",";","\n","1",";","1",";","[","t","i","m","e","]">>,
      <<"r","o","o","t",";","t","o","p",";","1",";","1">>,
      <<"r","o","o","t",";","t","o","p",";","1",";","1",";","a",";","b">>,
      <<"r","o","o","t",";","t","o","p",";",";","1",";","a">>,
      <<"r","o","o","t",";",";","l","e","f","t",";","1","2",";","x",";","a">>,
      <<"f","o","o",";","t","o","p",";","1",";","1",";","a">> }

\* Item lists given to gui_bar_new by its other callers (commands, plugins)
BarItems == { <<>>, <<"a",";","b">> }

(***************************************************************************)
(* wee-config.c, config_weechat_init: the options declared                 *)
(* (config_file_new_option (file, section, name, type, description,        *)
(* string_values, min, max, default_value, callback_change, ...))          *)
(***************************************************************************)
config_look_save_on_exit ==
    [name |-> "look_save_on_exit", type |-> "boolean",
     string_values |-> NULL, min |-> 0, max |-> 0,
     default_value |-> <<"o","n">>,
     callback_change |-> "config_change_save_on_exit"]

config_look_set_title ==
    [name |-> "look_set_title", type |-> "boolean",
     string_values |-> NULL, min |-> 0, max |-> 0,
     default_value |-> <<"o","n">>,
     callback_change |-> "config_change_title"]

config_look_scroll_amount_min_0 ==
    [name |-> "look_scroll_amount", type |-> "integer",
     string_values |-> NULL, min |-> 0, max |-> INT_MAX,
     default_value |-> <<"3">>,
     callback_change |-> "config_change_buffer_content"]

config_look_scroll_amount ==
    [name |-> "look_scroll_amount", type |-> "integer",
     string_values |-> NULL, min |-> 1, max |-> INT_MAX,
     default_value |-> <<"3">>,
     callback_change |-> "config_change_buffer_content"]

config_look_buffer_time_format ==
    [name |-> "look_buffer_time_format", type |-> "string",
     string_values |-> NULL, min |-> 0, max |-> 0,
     default_value |-> <<"[","%","H",":","%","M",":","%","S","]">>,
     callback_change |-> "config_change_buffer_time_format"]

config_look_color_nicks_number_max_100 ==
    [name |-> "look_color_nicks_number", type |-> "integer",
     string_values |-> NULL, min |-> 1, max |-> 100,
     default_value |-> <<"1","0">>,
     callback_change |-> "config_change_nicks_colors"]

config_look_color_nicks_number ==
    [name |-> "look_color_nicks_number", type |-> "integer",
     string_values |-> NULL, min |-> 1, max |-> 10,
     default_value |-> <<"1","0">>,
     callback_change |-> "config_change_nicks_colors"]

config_look_nicklist_position_swapped ==
    [name |-> "look_nicklist_position", type |-> "integer",
     string_values |-> <<"r","i","g","h","t","|","l","e","f","t","|","t","o","p","|","b","o","t","t","o","m">>, min |-> 0, max |-> 0,
     default_value |-> <<"r","i","g","h","t">>,
     callback_change |-> "config_change_buffers"]

config_look_nicklist_position ==
    [name |-> "look_nicklist_position", type |-> "integer",
     string_values |-> <<"l","e","f","t","|","r","i","g","h","t","|","t","o","p","|","b","o","t","t","o","m">>, min |-> 0, max |-> 0,
     default_value |-> <<"r","i","g","h","t">>,
     callback_change |-> "config_change_buffers"]

config_look_infobar_seconds ==
    [name |-> "look_infobar_seconds", type |-> "boolean",
     string_values |-> NULL, min |-> 0, max |-> 0,
     default_value |-> <<"o","n">>,
     callback_change |-> "config_change_infobar_seconds"]

config_look_day_change_no_callback ==
    [name |-> "look_day_change", type |-> "boolean",
     string_values |-> NULL, min |-> 0, max |-> 0,
     default_value |-> <<"o","n">>,
     callback_change |-> "NULL"]

config_look_day_change ==
    [name |-> "look_day_change", type |-> "boolean",
     string_values |-> NULL, min |-> 0, max |-> 0,
     default_value |-> <<"o","n">>,
     callback_change |-> "config_change_day_change"]

\* The options of the model, in the order config_weechat_init declares them
Declared ==
    << config_look_save_on_exit, config_look_set_title,
       config_look_scroll_amount, config_look_buffer_time_format,
       config_look_color_nicks_number,
       config_look_nicklist_position, config_look_infobar_seconds,
       config_look_day_change >>

OptionNames == {Declared[i].name : i \in 1..Len(Declared)}

Option(name) ==
    Declared[CHOOSE i \in 1..Len(Declared) : Declared[i].name = name]

\* The labels of an option declared with string_values "a|b|c"
Labels(option) == string_explode(option.string_values, {"|"})

IsEnumerated(option) ==
    option.type = "integer" /\ option.string_values # NULL

(***************************************************************************)
(* wee-config-file.c: validation of a raw value                            *)
(***************************************************************************)
BooleanTrue == { <<"o","n">>, <<"y","e","s">>, <<"y">>, <<"t","r","u","e">>, <<"t">>, <<"1">> }
BooleanFalse == { <<"o","f","f">>, <<"n","o">>, <<"n">>, <<"f","a","l","s","e">>, <<"f">>, <<"0">> }

\* The strings that the options of type string are given: such an option
\* holds the position of its string in StringValues, less 1
StringValues == << <<"[","%","H",":","%","M",":","%","S","]">>, <<"%","H",":","%","M">> >>

\* config_file_option_set (option, new_value, ...): rc is 0 for an invalid
\* value and 1 for a value that was accepted, value is the value to store.
config_file_option_set(option, new_value) ==
    LET invalid == [rc |-> 0, value |-> 0]
    IN  IF new_value = NULL THEN invalid
        ELSE IF option.type = "boolean"
        THEN IF StrLower(new_value) \in BooleanTrue
             THEN [rc |-> 1, value |-> 1]
             ELSE IF StrLower(new_value) \in BooleanFalse
             THEN [rc |-> 1, value |-> 0]
             ELSE invalid
        ELSE IF option.type = "string"
        THEN [rc |-> 1,
              value |-> (CHOOSE i \in 1..Len(StringValues) :
                             StringValues[i] = new_value) - 1]
        ELSE IF IsEnumerated(option)
        THEN LET labels == Labels(option)
             IN  IF \E i \in 1..Len(labels) : labels[i] = new_value
                 THEN [rc |-> 1,
                       value |-> (CHOOSE i \in 1..Len(labels) :
                                      labels[i] = new_value) - 1]
                 ELSE invalid
        ELSE LET number == strtol(new_value)
             IN  IF new_value = <<>> \/ ~AtEnd(new_value, number) THEN invalid
                 ELSE IF LongLess(number, option.min)
                         \/ LongGreater(number, option.max)
                 THEN invalid
                 ELSE [rc |-> 1, value |-> number.val]

\* config_file_new_option: the value of a new option is its default value;
\* -1 stands for the option that is not created (invalid default value).
NewOptionValue(option) ==
    LET r == config_file_option_set(option, option.default_value)
    IN  IF r.rc = 0 THEN -1 ELSE r.value

(***************************************************************************)
(* wee-hook.c: timers                                                      *)
(***************************************************************************)
NewHookId(hs) ==
    CHOOSE id \in 1..(Cardinality(hs) + 1) : \A h \in hs : h.id # id

\* hook_timer (plugin, interval, align_second, max_calls, callback, data);
\* the id of the new hook is NewHookId(s.hooks)
hook_timer(s, interval, callback) ==
    [s EXCEPT !.hooks = @ \cup {[id |-> NewHookId(s.hooks),
                                 interval |-> interval,
                                 callback |-> callback]},
              !.hooked = @ + 1]

unhook(s, id) ==
    [s EXCEPT !.hooks = {h \in @ : h.id # id}, !.unhooked = @ + 1]

(***************************************************************************)
(* wee-config.c: the change callbacks                                      *)
(***************************************************************************)
DayMs == 24 * 3600 * 1000

\* The message of config_change_save_on_exit
SaveOnExitWarning ==
    <<"W","a","r","n","i","n","g",":"," ","y","o","u"," ","s","h","o","u","l","d"," ","n","o","w"," ","i","s","s","u","e"," ","/","s","a","v","e"," ","t","o"," ","w","r","i","t","e"," ">>
    \o <<"\"","s","a","v","e","_","o","n","_","e","x","i","t","\""," ","o","p","t","i","o","n"," ","i","n"," ","c","o","n","f","i","g","u","r","a","t","i","o","n"," ","f","i","l","e">>

\* What the next undefined read of the running operation does
Outcome(s) == IF s.ub = <<>> THEN -1 ELSE Head(s.ub)

\* The state after an undefined read: the next one does what comes next,
\* and after the last it is the turn of the first again
NextRead(s) ==
    IF s.ub = <<>> THEN s ELSE [s EXCEPT !.ub = Tail(@) \o <<Head(@)>>]

\* The process is killed by the read of the option through its pointer
Kills(s, name) ==
    s.options[name] = -1 \/ (s.options[name] = -2 /\ Outcome(s) = -1)

\* CONFIG_BOOLEAN (option), read by a process that is not killed by it
CONFIG_BOOLEAN(s, name) ==
    IF s.options[name] = -2 THEN Outcome(s) ELSE s.options[name]

\* The state after the read of the option through its pointer
AfterRead(s, name) == IF s.options[name] = -2 THEN NextRead(s) ELSE s

\* A call of a function of the gui that wee-config.c only calls
GuiCall(s, call) == [s EXCEPT !.calls = Append(@, call)]

\* config_change_save_on_exit (): the test is on the pointer to the option
\* (-1 is NULL), not on its value
config_change_save_on_exit(s) ==
    IF s.options["look_save_on_exit"] = -1
    THEN GuiCall(s, [function |-> "gui_chat_printf",
                     message |-> SaveOnExitWarning])
    ELSE s

\* config_change_title (): the test is on the pointer to the option (-1 is
\* NULL), not on its value
config_change_title(s) ==
    IF s.options["look_set_title"] # -1
    THEN GuiCall(s, [function |-> "gui_window_title_set"])
    ELSE GuiCall(s, [function |-> "gui_window_title_reset"])

config_change_infobar_seconds_no_unhook(s) ==
    LET seconds == IF CONFIG_BOOLEAN(s, "look_infobar_seconds") # 0
                   THEN 1 ELSE 60
    IN  IF Kills(s, "look_infobar_seconds")
        THEN [s EXCEPT !.killed = TRUE]
        ELSE [hook_timer(AfterRead(s, "look_infobar_seconds"),
                         seconds * 1000, "gui_infobar_refresh_timer_cb")
                 EXCEPT !.infobar_timer = NewHookId(s.hooks)]

\* config_change_infobar_seconds (): the timer is unhooked before the option
\* is read
config_change_infobar_seconds(s) ==
    LET s1 == IF s.infobar_timer # 0 THEN unhook(s, s.infobar_timer) ELSE s
        seconds == IF CONFIG_BOOLEAN(s, "look_infobar_seconds") # 0
                   THEN 1 ELSE 60
    IN  IF Kills(s, "look_infobar_seconds")
        THEN [s1 EXCEPT !.killed = TRUE]
        ELSE [hook_timer(AfterRead(s1, "look_infobar_seconds"),
                         seconds * 1000, "gui_infobar_refresh_timer_cb")
                 EXCEPT !.infobar_timer = NewHookId(s1.hooks)]

config_change_day_change_keeps_handle(s) ==
    IF Kills(s, "look_day_change")
    THEN [s EXCEPT !.killed = TRUE]
    ELSE With(AfterRead(s, "look_day_change"),
              LAMBDA t :
                  IF CONFIG_BOOLEAN(s, "look_day_change") # 0
                  THEN IF t.day_timer = 0
                       THEN [hook_timer(t, DayMs,
                                        "config_day_change_timer_cb")
                                EXCEPT !.day_timer = NewHookId(t.hooks)]
                       ELSE t
                  ELSE IF t.day_timer # 0
                       THEN unhook(t, t.day_timer)
                       ELSE t)

config_change_day_change_always_hooks(s) ==
    IF Kills(s, "look_day_change")
    THEN [s EXCEPT !.killed = TRUE]
    ELSE With(AfterRead(s, "look_day_change"),
              LAMBDA t :
                  IF CONFIG_BOOLEAN(s, "look_day_change") # 0
                  THEN [hook_timer(t, DayMs, "config_day_change_timer_cb")
                           EXCEPT !.day_timer = NewHookId(t.hooks)]
                  ELSE IF t.day_timer # 0
                       THEN [unhook(t, t.day_timer) EXCEPT !.day_timer = 0]
                       ELSE t)

\* config_change_day_change ()
config_change_day_change(s) ==
    IF Kills(s, "look_day_change")
    THEN [s EXCEPT !.killed = TRUE]
    ELSE With(AfterRead(s, "look_day_change"),
              LAMBDA t :
                  IF CONFIG_BOOLEAN(s, "look_day_change") # 0
                  THEN IF t.day_timer = 0
                       THEN [hook_timer(t, DayMs,
                                        "config_day_change_timer_cb")
                                EXCEPT !.day_timer = NewHookId(t.hooks)]
                       ELSE t
                  ELSE IF t.day_timer # 0
                       THEN [unhook(t, t.day_timer) EXCEPT !.day_timer = 0]
                       ELSE t)

\* config_change_buffer_content (): gui_current_window->buffer is read for
\* the call of gui_window_redraw_buffer, which kills the process when there
\* is no window
config_change_buffer_content(s) ==
    IF s.window = 0 THEN [s EXCEPT !.killed = TRUE] ELSE s

\* config_change_buffer_time_format (): the time format of the buffers is
\* read with CONFIG_STRING (config_look_buffer_time_format) and measured, the
\* gui takes the new format, and gui_current_window->buffer is read as in
\* config_change_buffer_content
config_change_buffer_time_format(s) ==
    IF Kills(s, "look_buffer_time_format") THEN [s EXCEPT !.killed = TRUE]
    ELSE With(GuiCall(AfterRead(s, "look_buffer_time_format"),
                      [function |-> "gui_chat_change_time_format"]),
              LAMBDA x : IF x.window = 0 THEN [x EXCEPT !.killed = TRUE]
                         ELSE x)

\* A call of a change callback, logged with the option it is called for and
\* the value this option has then; config_change_buffers and
\* config_change_nicks_colors leave the state as it is.
Call(s, cb, name) ==
    LET s1 == [s EXCEPT !.cbs = Append(@, [callback |-> cb, option |-> name,
                                           seen |-> s.options[name]])]
    IN  IF s.killed THEN s
        ELSE IF cb = "config_change_day_change"
        THEN config_change_day_change(s1)
        ELSE IF cb = "config_change_infobar_seconds"
        THEN config_change_infobar_seconds(s1)
        ELSE IF cb = "config_change_save_on_exit"
        THEN config_change_save_on_exit(s1)
        ELSE IF cb = "config_change_title"
        THEN config_change_title(s1)
        ELSE IF cb = "config_change_buffer_content"
        THEN config_change_buffer_content(s1)
        ELSE IF cb = "config_change_buffer_time_format"
        THEN config_change_buffer_time_format(s1)
        ELSE s1

\* if (option->callback_change) (void) (option->callback_change) ();
RunCallback(s, option) ==
    IF option.callback_change = "NULL" THEN s
    ELSE Call(s, option.callback_change, option.name)

\* The callback of an option that was released: its pointer is read from the
\* released option and is the one the option was created with
FreedCallback(s, name) == Call(s, Option(name).callback_change, name)

\* Setting an option (the /set command, a line "name = value" of the file):
\* the value is stored if it is valid, and the change callback then runs.
\* An option that was not created is not found and nothing is set.  The
\* set of an option that was released is undefined: the process is killed,
\* the value is refused, or it is written to the released option, whose
\* pointer is dangling as before, and the callback runs.
OptionSet(s, name, raw) ==
    IF s.killed \/ s.options[name] = -1 THEN [s |-> s, rc |-> 0]
    ELSE IF s.options[name] = -2
    THEN (IF Outcome(s) = -1
          THEN [s |-> [s EXCEPT !.killed = TRUE], rc |-> 0]
          ELSE IF Outcome(s) = 0 THEN [s |-> NextRead(s), rc |-> 0]
          ELSE [s |-> FreedCallback(NextRead(s), name), rc |-> 1])
    ELSE With(config_file_option_set(Option(name), raw),
              LAMBDA r :
                  IF r.rc = 0 THEN [s |-> s, rc |-> 0]
                  ELSE [s |-> With([s EXCEPT !.options[name] = r.value],
                                   LAMBDA x : RunCallback(x, Option(name))),
                        rc |-> 1])

(***************************************************************************)
(* gui-keyboard.c                                                          *)
(***************************************************************************)
\* The names of the internal functions a key can be bound to
gui_key_functions == << <<"r","e","t","u","r","n">>, <<"t","a","b">> >>

\* gui_keyboard_get_internal_code (key): "ctrl-" is "^", "meta-" is "^[" and
\* "meta2-" is "^[[" in the internal code of a key.
RECURSIVE InternalCodeFrom(_, _)
InternalCodeFrom(key, i) ==
    IF i > Len(key) THEN <<>>
    ELSE IF HasPrefixAt(key, i, <<"m","e","t","a","2","-">>)
    THEN <<"^","[","[">> \o InternalCodeFrom(key, i + 6)
    ELSE IF HasPrefixAt(key, i, <<"m","e","t","a","-">>)
    THEN <<"^","[">> \o InternalCodeFrom(key, i + 5)
    ELSE IF HasPrefixAt(key, i, <<"c","t","r","l","-">>)
    THEN <<"^">> \o InternalCodeFrom(key, i + 5)
    ELSE <<key[i]>> \o InternalCodeFrom(key, i + 1)

gui_keyboard_get_internal_code(key) == InternalCodeFrom(key, 1)

\* gui_keyboard_get_expanded_name (key): the name of an internal code
RECURSIVE ExpandedNameFrom(_, _)
ExpandedNameFrom(key, i) ==
    IF i > Len(key) THEN <<>>
    ELSE IF HasPrefixAt(key, i, <<"^","[","[">>)
    THEN <<"m","e","t","a","2","-">> \o ExpandedNameFrom(key, i + 3)
    ELSE IF HasPrefixAt(key, i, <<"^","[">>)
    THEN <<"m","e","t","a","-">> \o ExpandedNameFrom(key, i + 2)
    ELSE IF key[i] = "^"
    THEN <<"c","t","r","l","-">> \o ExpandedNameFrom(key, i + 1)
    ELSE <<key[i]>> \o ExpandedNameFrom(key, i + 1)

gui_keyboard_get_expanded_name(key) == ExpandedNameFrom(key, 1)

\* gui_keyboard_function_search_by_name (name): a function, 0 is NULL
gui_keyboard_function_search_by_name(name) ==
    IF \E i \in 1..Len(gui_key_functions) : gui_key_functions[i] = name
    THEN CHOOSE i \in 1..Len(gui_key_functions) : gui_key_functions[i] = name
    ELSE 0

\* gui_keyboard_function_search_by_ptr (function): its name
gui_keyboard_function_search_by_ptr(function) ==
    IF function \in 1..Len(gui_key_functions)
    THEN gui_key_functions[function]
    ELSE NULL

\* The keys without the key of this internal code
KeysWithout(keys, code) == SelectSeq(keys, LAMBDA k : k.key # code)

\* gui_keyboard_unbind (key)
gui_keyboard_unbind(keys, key) ==
    KeysWithout(keys, gui_keyboard_get_internal_code(key))

\* gui_keyboard_new (key, command, function, args): the new key is the last
gui_keyboard_new(keys, key, command, function, args) ==
    Append(keys, [key |-> gui_keyboard_get_internal_code(key),
                  command |-> command, function |-> function, args |-> args])

\* Index of the first space of s, 0 if it has none
FirstSpace(s) ==
    IF \E i \in 1..Len(s) : s[i] = " "
    THEN CHOOSE i \in 1..Len(s) :
             s[i] = " " /\ \A j \in 1..(i - 1) : s[j] # " "
    ELSE 0

\* gui_keyboard_bind (key, command): a command whose first word is the name
\* of an internal function binds the function, with what follows the word as
\* arguments; any other command is bound as it is.
gui_keyboard_bind(keys, key, command) ==
    LET sp == FirstSpace(command)
        word == IF sp = 0 THEN command ELSE SubSeq(command, 1, sp - 1)
        function == gui_keyboard_function_search_by_name(word)
        args == IF sp = 0 THEN NULL
                ELSE SubSeq(command, SkipChars(command, sp, {" "}),
                            Len(command))
        unbound == gui_keyboard_unbind(keys, key)
    IN  IF key = NULL \/ command = NULL THEN keys
        ELSE IF function # 0
        THEN gui_keyboard_new(unbound, key, NULL, function, args)
        ELSE gui_keyboard_new(unbound, key, command, 0, NULL)

\* gui_keyboard_free_all ()
gui_keyboard_free_all(keys) == <<>>

(***************************************************************************)
(* wee-config.c: the "keys" section                                        *)
(***************************************************************************)
config_weechat_read_key_new(keys, option_name, value) ==
    IF option_name # NULL
    THEN IF value # NULL /\ value # <<>>
         THEN gui_keyboard_new(keys, option_name, value, 0, NULL)
         ELSE gui_keyboard_unbind(keys, option_name)
    ELSE keys

config_weechat_read_key_no_unbind(keys, option_name, value) ==
    IF option_name # NULL
    THEN IF value # NULL /\ value # <<>>
         THEN gui_keyboard_bind(keys, option_name, value)
         ELSE keys
    ELSE keys

\* config_weechat_read_key (data, config_file, option_name, value)
config_weechat_read_key(keys, option_name, value) ==
    IF option_name # NULL
    THEN IF value # NULL /\ value # <<>>
         THEN gui_keyboard_bind(keys, option_name, value)
         ELSE gui_keyboard_unbind(keys, option_name)
    ELSE keys

KeyLine_space_always(k) ==
    LET expanded_name == gui_keyboard_get_expanded_name(k.key)
        name == IF expanded_name # NULL THEN expanded_name ELSE k.key
        function_name == gui_keyboard_function_search_by_ptr(k.function)
    IN  IF k.function # 0
        THEN IF function_name # NULL
             THEN <<config_file_write_line(
                        name,
                        <<"\"">> \o function_name \o <<" ">>
                        \o (IF k.args # NULL THEN k.args ELSE <<>>)
                        \o <<"\"">>)>>
             ELSE <<>>
        ELSE <<config_file_write_line(
                   name, <<"\"">> \o FormatStr(k.command) \o <<"\"">>)>>

KeyLine_no_space(k) ==
    LET expanded_name == gui_keyboard_get_expanded_name(k.key)
        name == IF expanded_name # NULL THEN expanded_name ELSE k.key
        function_name == gui_keyboard_function_search_by_ptr(k.function)
    IN  IF k.function # 0
        THEN IF function_name # NULL
             THEN <<config_file_write_line(
                        name,
                        <<"\"">> \o function_name
                        \o (IF k.args # NULL THEN k.args ELSE <<>>)
                        \o <<"\"">>)>>
             ELSE <<>>
        ELSE <<config_file_write_line(
                   name, <<"\"">> \o FormatStr(k.command) \o <<"\"">>)>>

\* The lines written for one key (none, or one): "\"%s%s%s\"" for a function
\* and "\"%s\"" for a command
KeyLine(k) ==
    LET expanded_name == gui_keyboard_get_expanded_name(k.key)
        name == IF expanded_name # NULL THEN expanded_name ELSE k.key
        function_name == gui_keyboard_function_search_by_ptr(k.function)
    IN  IF k.function # 0
        THEN IF function_name # NULL
             THEN <<config_file_write_line(
                        name,
                        <<"\"">> \o function_name
                        \o (IF k.args # NULL THEN <<" ">> ELSE <<>>)
                        \o (IF k.args # NULL THEN k.args ELSE <<>>)
                        \o <<"\"">>)>>
             ELSE <<>>
        ELSE <<config_file_write_line(
                   name, <<"\"">> \o FormatStr(k.command) \o <<"\"">>)>>

RECURSIVE KeyLines(_)
KeyLines(keys) ==
    IF keys = <<>> THEN <<>> ELSE KeyLine(Head(keys)) \o KeyLines(Tail(keys))

\* config_weechat_write_keys (data, config_file, section_name): the lines
\* written, the section header first.
config_weechat_write_keys(keys, section_name) ==
    <<config_file_write_line(section_name, NULL)>> \o KeyLines(keys)

\* The keys after config_file_read has given every line of a "keys" section
\* (the header is no line of it) to the reader.
RECURSIVE ReadKeyLines(_, _)
ReadKeyLines(keys, lines) ==
    IF lines = <<>> THEN keys
    ELSE With(IF Head(lines).value = NULL THEN keys
              ELSE config_weechat_read_key(keys, Head(lines).key,
                                           UnquoteValue(Head(lines).value)),
              LAMBDA x : ReadKeyLines(x, Tail(lines)))

AllKeyNames == << <<"c","t","r","l","-","c">>, <<"m","e","t","a","-","a">>, <<"m","e","t","a","2","-","b">> >>
KeyNames == {AllKeyNames[i] : i \in 1..MaxKeys}

KeyValues ==
    { NULL, <<>>,
      <<"r","e","t","u","r","n">>, <<"t","a","b"," ","x">>, <<"r","e","t","u","r","n"," ">>,
      <<"/","q","u","i","t">>, <<"/","m","s","g"," ","a">>, <<"f","o","o"," ","b","a","r">>, <<"\"","x","\"">> }

(***************************************************************************)
(* wee-config-file.c: reading the file                                     *)
(***************************************************************************)
\* A line "name = value" of the file, in its section: opt names the option of
\* a line of an option section, key is the name in the sections "bars" and
\* "keys".
OptionLine(section, opt, value) ==
    [section |-> section, opt |-> opt, key |-> NULL, value |-> value]
RecordLine(section, key, value) ==
    [section |-> section, opt |-> "", key |-> key, value |-> value]

\* config_file_read on one line: a line of "bars" or "keys" goes to the reader
\* of its section, any other line sets the option it names; a line with an
\* invalid value or an unknown name is skipped.
ReadLine(s, line) ==
    IF s.killed THEN s
    ELSE IF line.section = "bars"
    THEN [s EXCEPT !.bars = config_weechat_read_bar(@, line.key, line.value)]
    ELSE IF line.section = "keys"
    THEN [s EXCEPT !.keys = config_weechat_read_key(@, line.key, line.value)]
    ELSE IF line.opt \in OptionNames
    THEN OptionSet(s, line.opt, line.value).s
    ELSE s

RECURSIVE ReadLines(_, _)
ReadLines(s, lines) ==
    IF lines = <<>> THEN s
    ELSE With(ReadLine(s, Head(lines)),
              LAMBDA x : ReadLines(x, Tail(lines)))

\* config_file_read (config_file): 0, or -1 when the file is not found
config_file_read(s, file) ==
    IF ~file.exists THEN [s |-> s, rc |-> -1]
    ELSE [s |-> ReadLines(s, file.lines), rc |-> 0]

\* config_file_reload (config_file)
config_file_reload(s, file) == config_file_read(s, file)

(***************************************************************************)
(* wee-config.c: read and reload                                           *)
(***************************************************************************)
\* What config_weechat_reload releases before it has the file read again:
\* gui_keyboard_free_all ()
ReloadTeardown(s) == [s EXCEPT !.keys = gui_keyboard_free_all(@)]

config_weechat_reload_no_teardown(s, file) == config_file_reload(s, file)

config_weechat_reload_teardown_if_found(s, file) ==
    IF file.exists
    THEN With(ReloadTeardown(s), LAMBDA x : config_file_reload(x, file))
    ELSE config_file_reload(s, file)

config_weechat_reload_frees_keys_last(s, file) ==
    With(config_file_reload(s, file),
         LAMBDA r : [s |-> ReloadTeardown(r.s), rc |-> r.rc])

config_weechat_reload_returns_0(s, file) ==
    With(ReloadTeardown(s),
         LAMBDA x : [s |-> config_file_reload(x, file).s, rc |-> 0])

\* config_weechat_reload (data, config_file)
config_weechat_reload(s, file) ==
    With(ReloadTeardown(s), LAMBDA x : config_file_reload(x, file))

\* config_weechat_read ()
config_weechat_read(s, file) ==
    With(config_file_read(s, file),
         LAMBDA r :
             IF r.rc = 0
             THEN [s |-> With(Call(r.s, "config_change_infobar_seconds",
                                   "look_infobar_seconds"),
                              LAMBDA x : Call(x, "config_change_day_change",
                                              "look_day_change")),
                   rc |-> r.rc]
             ELSE r)

(***************************************************************************)
(* wee-config.c: the day-change timer                                      *)
(***************************************************************************)
GUI_BUFFER_TYPE_FORMATED == "formated"
GUI_BUFFER_TYPE_FREE == "free"

\* The default value of look_day_change_time_format
DayChangeTimeFormatDefault == <<"%","a",","," ","%","d"," ","%","b"," ","%","Y">>

WeekdayAbbr == << <<"S","u","n">>, <<"M","o","n">>, <<"T","u","e">>, <<"W","e","d">>, <<"T","h","u">>, <<"F","r","i">>, <<"S","a","t">> >>
WeekdayFull ==
    << <<"S","u","n","d","a","y">>, <<"M","o","n","d","a","y">>, <<"T","u","e","s","d","a","y">>, <<"W","e","d","n","e","s","d","a","y">>, <<"T","h","u","r","s","d","a","y">>,
       <<"F","r","i","d","a","y">>, <<"S","a","t","u","r","d","a","y">> >>
MonthAbbr ==
    << <<"J","a","n">>, <<"F","e","b">>, <<"M","a","r">>, <<"A","p","r">>, <<"M","a","y">>, <<"J","u","n">>, <<"J","u","l">>, <<"A","u","g">>,
       <<"S","e","p">>, <<"O","c","t">>, <<"N","o","v">>, <<"D","e","c">> >>
MonthFull ==
    << <<"J","a","n","u","a","r","y">>, <<"F","e","b","r","u","a","r","y">>, <<"M","a","r","c","h">>, <<"A","p","r","i","l">>, <<"M","a","y">>, <<"J","u","n","e">>,
       <<"J","u","l","y">>, <<"A","u","g","u","s","t">>, <<"S","e","p","t","e","m","b","e","r">>, <<"O","c","t","o","b","e","r">>, <<"N","o","v","e","m","b","e","r">>,
       <<"D","e","c","e","m","b","e","r">> >>

\* sizeof (text_time)
TextTimeSize == 1024

\* The year of tm_year 0
TM_YEAR_BASE == 1900

__isleap(year) == year % 4 = 0 /\ (year % 100 # 0 \/ year % 400 = 0)

\* mktime (tp), for the tp that localtime gave: the seconds since the Epoch
\* of the local time tp, tm_gmtoff seconds east of UTC
mktime(tp) ==
    LET year == tp.tm_year + TM_YEAR_BASE
        \* The days before the first of each month, in a year that is not
        \* leap
        MonthYday == << 0, 31, 59, 90, 120, 151, 181, 212, 243, 273, 304,
                        334 >>
        \* The days from 1 January 1970 to 1 January of year
        DaysToYear == 365 * (year - 1970)
                      + ((year - 1) \div 4 - 1969 \div 4)
                      - ((year - 1) \div 100 - 1969 \div 100)
                      + ((year - 1) \div 400 - 1969 \div 400)
        days == DaysToYear + MonthYday[tp.tm_mon + 1]
                + (IF tp.tm_mon > 1 /\ __isleap(year) THEN 1 ELSE 0)
                + tp.tm_mday - 1
    IN  ((days * 24 + tp.tm_hour) * 60 + tp.tm_min) * 60 + tp.tm_sec
        - tp.tm_gmtoff

\* n characters c
Fill(c, n) == [k \in 1..n |-> c]

\* The flags of a conversion, read from format[f] on
RECURSIVE Flags(_, _, _)
Flags(format, f, c) ==
    IF At(format, f) \in {"_", "-", "0"}
    THEN Flags(format, f + 1, [c EXCEPT !.pad = At(format, f)])
    ELSE IF At(format, f) = "^"
    THEN Flags(format, f + 1, [c EXCEPT !.to_uppcase = TRUE])
    ELSE IF At(format, f) = "#"
    THEN Flags(format, f + 1, [c EXCEPT !.change_case = TRUE])
    ELSE [c EXCEPT !.f = f]

\* The width of a conversion, read from format[f] on: it stops at INT_MAX
RECURSIVE Width(_, _, _)
Width(format, f, c) ==
    IF IsDigit(At(format, f))
    THEN Width(format, f + 1,
               [c EXCEPT !.width =
                   IF @ > INT_MAX \div 10
                      \/ (@ = INT_MAX \div 10
                          /\ DigitVal(At(format, f)) > INT_MAX % 10)
                   THEN INT_MAX
                   ELSE @ * 10 + DigitVal(At(format, f))])
    ELSE [c EXCEPT !.f = f]

\* A conversion of format that starts with the '%' at index start: its
\* flags, width, modifier and format character ch, at index f
Directive(format, start, upcase) ==
    With(Flags(format, start + 1,
               [f |-> start + 1, pad |-> NUL, to_uppcase |-> upcase,
                to_lowcase |-> FALSE, change_case |-> FALSE, width |-> -1,
                modifier |-> NUL, ch |-> NUL]),
         LAMBDA fl :
             With(IF IsDigit(At(format, fl.f))
                  THEN Width(format, fl.f, [fl EXCEPT !.width = 0])
                  ELSE fl,
                  LAMBDA w :
                      IF At(format, w.f) \in {"E", "O"}
                      THEN [w EXCEPT !.modifier = At(format, w.f),
                                     !.f = w.f + 1,
                                     !.ch = At(format, w.f + 1)]
                      ELSE [w EXCEPT !.ch = At(format, w.f)]))

\* add (n, f): the n characters of text, after zeros or spaces up to the
\* width; strftime returns 0 when they do not fit before the last byte
add(o, maxsize, c, text) ==
    LET n == Len(text)
        delta == c.width - n
        incr == n + (IF delta > 0 THEN delta ELSE 0)
    IN  IF o.ret0 THEN o
        ELSE IF incr >= maxsize - Len(o.p) THEN [o EXCEPT !.ret0 = TRUE]
        ELSE [o EXCEPT
                 !.p = @ \o Fill(IF c.pad = "0" THEN "0" ELSE " ", incr - n)
                         \o text]

\* cpy (n, s): add, in lower case or in upper case when asked for
cpy(o, maxsize, c, text) ==
    add(o, maxsize, c,
        IF c.to_lowcase THEN StrLower(text)
        ELSE IF c.to_uppcase THEN StrUpper(text)
        ELSE text)

\* do_number_sign_and_padding: the digits in bufp after the sign, padded to
\* digits characters unless the flag is '-'
do_number_sign_and_padding(o, maxsize, c, digits, bufp, negative_number) ==
    LET buf == (IF negative_number THEN <<"-">> ELSE <<>>) \o bufp
        padding == digits - Len(buf)
    IN  IF o.ret0 THEN o
        ELSE IF c.pad = "-" \/ padding <= 0 THEN cpy(o, maxsize, c, buf)
        ELSE IF c.pad = "_"
        THEN IF padding >= maxsize - Len(o.p) THEN [o EXCEPT !.ret0 = TRUE]
             ELSE cpy([o EXCEPT !.p = @ \o Fill(" ", padding)], maxsize,
                      [c EXCEPT !.width = IF @ > padding THEN @ - padding
                                          ELSE 0],
                      buf)
        ELSE IF digits >= maxsize - Len(o.p) THEN [o EXCEPT !.ret0 = TRUE]
        ELSE cpy([o EXCEPT !.p = @ \o (IF negative_number THEN <<"-">>
                                       ELSE <<>>)
                                   \o Fill("0", padding)],
                 maxsize, [c EXCEPT !.width = 0], bufp)

\* DO_NUMBER (d, v): v in decimal, in d digits or the width if it is more
do_number(o, maxsize, c, d, number_value) ==
    do_number_sign_and_padding(
        o, maxsize, c, IF d > c.width THEN d ELSE c.width,
        DecDigits(IF number_value < 0 THEN -number_value ELSE number_value),
        number_value < 0)

\* bad_format: the conversion is copied, from its '%' to its last character
BadFormat(format, start, c) ==
    IF c.ch = "%" THEN <<"%">>
    ELSE IF c.ch = NUL THEN SubSeq(format, start, c.f - 1)
    ELSE SubSeq(format, start, c.f)

\* The year of the ISO week of tp and the days of it before that week
IsoWeek(tp) ==
    LET year == tp.tm_year + TM_YEAR_BASE
        \* iso_week_days (yday, wday): the days of the year of yday that
        \* are in its ISO week 1 or later, less 1
        iso_week_days(yday, wday) ==
            yday - Rem(yday - wday + 4 + 378, 7) + 4 - 1
        days == iso_week_days(tp.tm_yday, tp.tm_wday)
    IN  IF days < 0
        THEN [year |-> year - 1,
              days |-> iso_week_days(
                           tp.tm_yday
                           + (365 + IF __isleap(year - 1) THEN 1 ELSE 0),
                           tp.tm_wday)]
        ELSE With(iso_week_days(
                      tp.tm_yday - (365 + IF __isleap(year) THEN 1 ELSE 0),
                      tp.tm_wday),
                  LAMBDA d : IF 0 <= d THEN [year |-> year + 1, days |-> d]
                             ELSE [year |-> year, days |-> days])

\* The subformat of the conversions that are made of others, in the C locale
Subformat(ch) ==
    CASE ch = "c" -> <<"%","a"," ","%","b"," ","%","e"," ","%","H",":","%","M",":","%","S"," ","%","Y">>
      [] ch = "x" -> <<"%","m","/","%","d","/","%","y">>
      [] ch = "D" -> <<"%","m","/","%","d","/","%","y">>
      [] ch = "F" -> <<"%","Y","-","%","m","-","%","d">>
      [] ch = "R" -> <<"%","H",":","%","M">>
      [] ch = "r" -> <<"%","I",":","%","M",":","%","S"," ","%","p">>
      [] ch = "T" -> <<"%","H",":","%","M",":","%","S">>
      [] ch = "X" -> <<"%","H",":","%","M",":","%","S">>

\* The conversions with a number: the digits by default, whether spaces pad
\* them by default, and the number
Number(ch, tp) ==
    LET year == tp.tm_year + TM_YEAR_BASE
        hour12 == IF tp.tm_hour > 12 THEN tp.tm_hour - 12
                  ELSE IF tp.tm_hour = 0 THEN 12 ELSE tp.tm_hour
        N(d, spacepad, v) == [d |-> d, spacepad |-> spacepad, v |-> v]
    IN  CASE ch = "C" -> N(1, FALSE, Quot(year, 100)
                                     - (IF Rem(year, 100) < 0 THEN 1 ELSE 0))
          [] ch = "d" -> N(2, FALSE, tp.tm_mday)
          [] ch = "e" -> N(2, TRUE, tp.tm_mday)
          [] ch = "H" -> N(2, FALSE, tp.tm_hour)
          [] ch = "I" -> N(2, FALSE, hour12)
          [] ch = "k" -> N(2, TRUE, tp.tm_hour)
          [] ch = "l" -> N(2, TRUE, hour12)
          [] ch = "j" -> N(3, FALSE, 1 + tp.tm_yday)
          [] ch = "M" -> N(2, FALSE, tp.tm_min)
          [] ch = "m" -> N(2, FALSE, tp.tm_mon + 1)
          [] ch = "S" -> N(2, FALSE, tp.tm_sec)
          [] ch = "u" -> N(1, FALSE, Rem(tp.tm_wday - 1 + 7, 7) + 1)
          [] ch = "U" -> N(2, FALSE, Quot(tp.tm_yday - tp.tm_wday + 7, 7))
          [] ch = "V" -> N(2, FALSE, Quot(IsoWeek(tp).days, 7) + 1)
          [] ch = "g" -> N(2, FALSE,
                           Rem(Rem(IsoWeek(tp).year, 100) + 100, 100))
          [] ch = "G" -> N(1, FALSE, IsoWeek(tp).year)
          [] ch = "W" -> N(2, FALSE,
                           Quot(tp.tm_yday - Rem(tp.tm_wday - 1 + 7, 7) + 7,
                                7))
          [] ch = "w" -> N(1, FALSE, tp.tm_wday)
          [] ch = "Y" -> N(1, FALSE, year)
          [] ch = "y" -> N(2, FALSE, Rem(Rem(tp.tm_year, 100) + 100, 100))

\* __strftime_internal (s, maxsize, format, tp, upcase), the iterations of
\* its loop over format that start at the indexes lo to hi: o.p is the text
\* written so far, o.f the index of format where the next iteration starts,
\* and o.ret0 says that 0 is returned for the lack of room
RECURSIVE strftime_internal(_, _, _, _, _, _, _)

\* One conversion of format, c, that starts at index start
Conversion(o, maxsize, format, start, c, tp) ==
    LET up == IF c.change_case THEN [c EXCEPT !.to_uppcase = TRUE] ELSE c
        low == IF c.change_case
               THEN [c EXCEPT !.to_uppcase = FALSE, !.to_lowcase = TRUE]
               ELSE c
        \* The conversions that the modifier E, and that the modifier O,
        \* makes a bad format
        BadWithE == { "a", "A", "b", "h", "B", "d", "e", "D", "F", "g", "G",
                      "H", "I", "j", "k", "l", "m", "M", "S", "U", "V", "w",
                      "W" }
        BadWithO == { "a", "A", "c", "D", "F", "x", "X", "Y" }
        \* (size_t) -1, the size given to the measure of a subformat: more
        \* than the length of any text
        NoLimit == INT_MAX
    IN  IF c.ch \in {"b", "h"} /\ c.modifier = "E"
        THEN cpy(o, maxsize, up, BadFormat(format, start, c))
        ELSE IF \/ (c.modifier = "E" /\ c.ch \in BadWithE)
                \/ (c.modifier = "O" /\ c.ch \in BadWithO)
        THEN cpy(o, maxsize, c, BadFormat(format, start, c))
        ELSE IF c.ch = "%" THEN add(o, maxsize, c, <<"%">>)
        ELSE IF c.ch = "n" THEN add(o, maxsize, c, <<"\n">>)
        ELSE IF c.ch = "t" THEN add(o, maxsize, c, <<"\t">>)
        ELSE IF c.ch = "a"
        THEN cpy(o, maxsize, up,
                 IF tp.tm_wday < 0 \/ tp.tm_wday > 6 THEN <<"?">>
                 ELSE WeekdayAbbr[tp.tm_wday + 1])
        ELSE IF c.ch = "A"
        THEN cpy(o, maxsize, up,
                 IF tp.tm_wday < 0 \/ tp.tm_wday > 6 THEN <<"?">>
                 ELSE WeekdayFull[tp.tm_wday + 1])
        ELSE IF c.ch \in {"b", "h"}
        THEN cpy(o, maxsize, up,
                 IF tp.tm_mon < 0 \/ tp.tm_mon > 11 THEN <<"?">>
                 ELSE MonthAbbr[tp.tm_mon + 1])
        ELSE IF c.ch = "B"
        THEN cpy(o, maxsize, up,
                 IF tp.tm_mon < 0 \/ tp.tm_mon > 11 THEN <<"?">>
                 ELSE MonthFull[tp.tm_mon + 1])
        ELSE IF c.ch \in {"p", "P"}
        THEN cpy(o, maxsize,
                 IF c.ch = "P" THEN [low EXCEPT !.to_lowcase = TRUE] ELSE low,
                 IF tp.tm_hour > 11 THEN <<"P","M">> ELSE <<"A","M">>)
        ELSE IF c.ch = "Z" THEN cpy(o, maxsize, low, tp.tm_zone)
        ELSE IF c.ch = "z"
        THEN IF tp.tm_isdst < 0 THEN o
             ELSE With(IF tp.tm_gmtoff < 0 THEN -tp.tm_gmtoff
                       ELSE tp.tm_gmtoff,
                       LAMBDA diff :
                           do_number(
                               add(o, maxsize, c,
                                   IF tp.tm_gmtoff < 0 THEN <<"-">>
                                   ELSE <<"+">>),
                               maxsize, c, 4,
                               ((diff \div 60) \div 60) * 100
                               + ((diff \div 60) % 60)))
        ELSE IF c.ch = "s"
        THEN With(mktime(tp),
                  LAMBDA t : do_number_sign_and_padding(
                                 o, maxsize, c, 1,
                                 DecDigits(IF t < 0 THEN -t ELSE t), t < 0))
        ELSE IF c.ch \in {"c", "x", "D", "F", "R", "r", "T", "X"}
        THEN add(o, maxsize, c,
                 With(strftime_internal([p |-> <<>>, ret0 |-> FALSE,
                                         f |-> 1], NoLimit,
                                        Subformat(c.ch), 1,
                                        Len(Subformat(c.ch)), tp,
                                        c.to_uppcase).p,
                      LAMBDA sub : IF c.to_uppcase THEN StrUpper(sub)
                                   ELSE sub))
        ELSE IF c.ch \in {"C", "d", "e", "H", "I", "k", "l", "j", "M", "m",
                          "S", "u", "U", "V", "g", "G", "W", "w", "Y", "y"}
        THEN With(Number(c.ch, tp),
                  \* DO_NUMBER_SPACEPAD (d, v): the flag '_' unless the
                  \* flag is '0' or '-'
                  LAMBDA n : IF n.spacepad /\ c.pad \notin {"0", "-"}
                             THEN do_number(o, maxsize,
                                            [c EXCEPT !.pad = "_"], n.d, n.v)
                             ELSE do_number(o, maxsize, c, n.d, n.v))
        ELSE cpy(o, maxsize, c, BadFormat(format, start, c))

\* The iteration of the loop that starts at index k of format, if one does:
\* a character that is not '%' is added, a conversion is made
Iteration(o, maxsize, format, k, tp, upcase) ==
    IF o.ret0 \/ o.f # k THEN o
    ELSE IF format[k] # "%"
    THEN [add(o, maxsize, [width |-> -1, pad |-> NUL], <<format[k]>>)
             EXCEPT !.f = k + 1]
    ELSE With(Directive(format, k, upcase),
              LAMBDA c : [Conversion(o, maxsize, format, k, c, tp)
                             EXCEPT !.f = c.f + 1])

strftime_internal(o, maxsize, format, lo, hi, tp, upcase) ==
    IF lo > hi THEN o
    ELSE IF lo = hi THEN Iteration(o, maxsize, format, lo, tp, upcase)
    ELSE With(strftime_internal(o, maxsize, format, lo, (lo + hi) \div 2,
                                tp, upcase),
              LAMBDA o1 : strftime_internal(o1, maxsize, format,
                                            (lo + hi) \div 2 + 1, hi, tp,
                                            upcase))

\* strftime (s, maxsize, format, tp): the length of the text and the text;
\* what s holds is not specified when 0 is returned for the lack of room
strftime(maxsize, format, tp) ==
    With(strftime_internal([p |-> <<>>, ret0 |-> FALSE, f |-> 1], maxsize,
                           format, 1, Len(format), tp, FALSE),
         LAMBDA o : IF o.ret0 THEN [ret |-> 0, s |-> UNSPECIFIED]
                    ELSE [ret |-> Len(o.p), s |-> o.p])

\* string_iconv_to_internal (NULL, string): a copy of the string in the
\* internal charset, NULL when there is no memory for it
string_iconv_to_internal(string, memory) == IF memory THEN string ELSE NULL

\* gui_chat_printf (buffer, message, ...): the buffer with the message as its
\* last line
gui_chat_printf(buffer, message) ==
    [buffer EXCEPT !.lines = Append(@, message)]

\* The message of config_day_change_timer_cb
DayChangedText(format, local_time, memory) ==
    LET text_time == IF format = UNSPECIFIED THEN UNSPECIFIED
                     ELSE strftime(TextTimeSize, format, local_time).s
        text_time2 == string_iconv_to_internal(text_time, memory)
    IN  <<"\t", "\t">> \o <<"D","a","y"," ","c","h","a","n","g","e","d"," ","t","o"," ">>
        \o (IF text_time2 # NULL THEN text_time2 ELSE text_time)

\* The process is killed by the read of the format through the pointer
\* config_look_day_change_time_format
FormatKills(s, format) ==
    format = NULL \/ (format = DANGLING /\ Outcome(s) = -1)

\* CONFIG_STRING (config_look_day_change_time_format), read by a process
\* that is not killed by it: a read through the dangling pointer finds the
\* string the released option had, or other bytes
CONFIG_STRING(s, format) ==
    IF format # DANGLING THEN format
    ELSE IF Outcome(s) = 0 THEN UNSPECIFIED
    ELSE DayChangeTimeFormatDefault

\* The state after the read of the format through its pointer
AfterFormat(s, format) == IF format = DANGLING THEN NextRead(s) ELSE s

config_day_change_timer_cb_rearms(s, format, local_time, memory) ==
    IF FormatKills(s, format) THEN [s EXCEPT !.killed = TRUE]
    ELSE With(DayChangedText(CONFIG_STRING(s, format), local_time, memory),
              LAMBDA message :
                  [hook_timer(
                       [AfterFormat(s, format) EXCEPT
                           !.buffers =
                               [i \in 1..Len(s.buffers) |->
                                   IF s.buffers[i].type
                                      = GUI_BUFFER_TYPE_FORMATED
                                   THEN gui_chat_printf(s.buffers[i], message)
                                   ELSE s.buffers[i]],
                           !.add_hotlist = 1],
                       DayMs, "config_day_change_timer_cb")
                      EXCEPT !.day_timer = NewHookId(s.hooks)])

\* config_day_change_timer_cb (data): the time is formatted once, whether
\* strftime found room for it or not; gui_add_hotlist is 0 while the message
\* is printed to the buffers, and is set to 1 after that
config_day_change_timer_cb(s, format, local_time, memory) ==
    IF FormatKills(s, format) THEN [s EXCEPT !.killed = TRUE]
    ELSE With(DayChangedText(CONFIG_STRING(s, format), local_time, memory),
              LAMBDA message :
                  [AfterFormat(s, format) EXCEPT
                      !.buffers =
                          [i \in 1..Len(s.buffers) |->
                              IF s.buffers[i].type = GUI_BUFFER_TYPE_FORMATED
                              THEN gui_chat_printf(s.buffers[i], message)
                              ELSE s.buffers[i]],
                      !.add_hotlist = 1])

\* gui_buffer_new: the new buffer is the last, and has no line
gui_buffer_new(buffers, type) ==
    Append(buffers, [type |-> type, lines |-> <<>>])

(***************************************************************************)
(* wee-config.c: write                                                     *)
(***************************************************************************)
\* The lines the writers of the sections "bars" and "keys" give to
\* config_file_write_line when config_file_write calls them
WriterLines(s, sections) ==
    (IF \E i \in 1..Len(sections) : sections[i] = "bars"
     THEN config_weechat_write_bars(s.bars, <<"b","a","r","s">>) ELSE <<>>)
    \o (IF \E i \in 1..Len(sections) : sections[i] = "keys"
        THEN config_weechat_write_keys(s.keys, <<"k","e","y","s">>) ELSE <<>>)

\* config_file_write (config_file): -1 when the file cannot be written to,
\* else the writers are called and 0 is returned.  fails is the line of the
\* writers for which config_file_write_line fails (0 for none): the writers
\* return nothing and go on with their next line, so that the line is
\* missing from the file and nothing else depends on it.
config_file_write(s, sections, file_ok, fails) ==
    IF ~file_ok THEN [rc |-> -1, written |-> <<>>]
    ELSE [rc |-> 0,
          written |-> With(WriterLines(s, sections),
                           LAMBDA lines :
                               SelectSeq([i \in 1..Len(lines) |->
                                             [n |-> i, line |-> lines[i]]],
                                         LAMBDA l : l.n # fails))]

\* config_weechat_write (): weechat_config_file->filename is read for the
\* line of the log, which kills the process when the pointer is NULL.  A
\* read through the pointer to a released configuration kills the process,
\* or finds memory that holds no section any more, or finds the sections the
\* configuration had when it was released.  file is weechat_config_file.
config_weechat_write(s, file, file_ok, fails) ==
    IF file.ptr = "NULL" \/ (file.ptr = "freed" /\ Outcome(s) = -1)
    THEN [s |-> [s EXCEPT !.killed = TRUE], rc |-> 0, written |-> <<>>]
    ELSE With(config_file_write(s,
                                IF file.ptr = "freed" /\ Outcome(s) = 0
                                THEN <<>> ELSE file.sections,
                                file_ok, fails),
              LAMBDA r : [s |-> IF file.ptr = "freed" THEN NextRead(s) ELSE s,
                          rc |-> r.rc, written |-> r.written])

(***************************************************************************)
(* Inputs                                                                  *)
(***************************************************************************)
NoFile == [exists |-> FALSE, lines |-> <<>>]

Files ==
    << NoFile,
      [exists |-> TRUE, lines |-> <<>>],
      [exists |-> TRUE, lines |->
          << OptionLine("look", "look_scroll_amount", <<"0">>),
             OptionLine("look", "look_day_change", <<"o","f","f">>),
             RecordLine("bars", AllBarNames[1], <<"r","o","o","t",";","t","o","p",";","1",";","1",";","[","t","i","m","e","]">>),
             RecordLine("keys", AllKeyNames[1], <<"r","e","t","u","r","n">>) >>],
      [exists |-> TRUE, lines |->
          << OptionLine("look", "look_day_change", <<"o","n">>),
             OptionLine("look", "look_color_nicks_number", <<"1","1">>),
             OptionLine("look", "look_nicklist_position", <<"t","o","p">>),
             OptionLine("look", "look_unknown", <<"1">>),
             RecordLine("bars", AllBarNames[1], <<"r","o","o","t",";","t","o","p",";","x",";","1",";","a">>),
             OptionLine("look", "look_scroll_amount", <<"1","0">>),
             RecordLine("keys", AllKeyNames[2], <<"/","q","u","i","t">>),
             RecordLine("keys", AllKeyNames[1], <<>>) >>] >>

\* The values given to look_day_change_time_format
TimeFormats ==
    { DayChangeTimeFormatDefault, <<"%","d","/","%","Y">>, <<"%","-","e"," ","%","B"," ","%","H",":","%","M">>, <<"%","1","0","2","4","d">> }

\* The local times at which the day-change timer fires
LocalTimes ==
    { [tm_sec |-> 0, tm_min |-> 0, tm_hour |-> 0, tm_mday |-> 1,
       tm_mon |-> 10, tm_year |-> 126, tm_wday |-> 0, tm_yday |-> 304,
       tm_isdst |-> 0, tm_gmtoff |-> 0, tm_zone |-> <<"U","T","C">>],
      [tm_sec |-> 7, tm_min |-> 0, tm_hour |-> 0, tm_mday |-> 30,
       tm_mon |-> 9, tm_year |-> 126, tm_wday |-> 5, tm_yday |-> 302,
       tm_isdst |-> 0, tm_gmtoff |-> 3600, tm_zone |-> <<"C","E","T">>] }

IntegerRaws == { NULL, <<"0">>, <<"3">>, <<"1","0">>, <<"-","1">>, <<"2","1","4","7","4","8","3","6","4","8">>, <<"1","x">> }
NicksRaws == { <<"0">>, <<"3">>, <<"1","0">>, <<"1","1">> }
BooleanRaws == { <<"o","n">>, <<"o","f","f">>, <<"O","N">>, <<"m","a","y","b","e">> }
LabelRaws == { <<"l","e","f","t">>, <<"r","i","g","h","t">>, <<"t","o","p">>, <<"b","o","t","t","o","m">>, <<"L","e","f","t">>, <<"u","n","k","n","o","w","n">> }

\* The options whose change callback acts on the terminal
TerminalOptions == {"look_save_on_exit", "look_set_title"}

\* The raw values given to an option
RawValues(name) ==
    IF Option(name).type = "boolean" THEN BooleanRaws
    ELSE IF Option(name).type = "string"
    THEN {StringValues[i] : i \in 1..Len(StringValues)} \cup {NULL}
    ELSE IF IsEnumerated(Option(name)) THEN LabelRaws
    ELSE IF name = "look_color_nicks_number" THEN NicksRaws
    ELSE IntegerRaws

(***************************************************************************)
(* The state machine                                                       *)
(***************************************************************************)
\* The sections config_weechat_init creates, in its order
SectionNames ==
    << "startup", "look", "colors", "history", "proxy", "plugins", "bars",
       "keys" >>

\* config_file_new_option: the option with its default value, NULL (-1) when
\* the default value is invalid or the creation fails
NewOption(option, fails) ==
    IF option.name \in fails THEN -1 ELSE NewOptionValue(option)

\* config_weechat_init (): config_ok tells whether config_file_new gives a
\* file, section_fails is the section config_file_new_section fails for (0
\* for none), option_fails are the options config_file_new_option fails for.
\* file is the value of weechat_config_file: ptr is "NULL", "live" (with the
\* sections of the file) or "freed", the pointer left when the file was
\* released by config_file_free (with the sections it had then); sections is
\* the number of calls of config_file_new_section made.  The options are those of the section
\* "look", the second one: when a later section fails, the pointers to
\* the options created are left as they are by the return, and point to
\* the options config_file_free has released (-2, DANGLING).
\* The string option of the section "look", which the model keeps in
\* config_look_day_change_time_format
TimeFormatName == "look_day_change_time_format"

config_weechat_init(config_ok, section_fails, option_fails) ==
    IF ~config_ok
    THEN [rc |-> 0, file |-> [ptr |-> "NULL", sections |-> <<>>],
          sections |-> 0,
          options |-> [n \in OptionNames |-> -1],
          time_format |-> NULL]
    ELSE IF section_fails \in {1, 2}
    THEN [rc |-> 0,
          file |-> [ptr |-> "freed",
                    sections |-> SubSeq(SectionNames, 1, section_fails - 1)],
          sections |-> section_fails,
          options |-> [n \in OptionNames |-> -1],
          time_format |-> NULL]
    ELSE With([n \in OptionNames |-> NewOption(Option(n), option_fails)],
              LAMBDA look :
                  IF section_fails # 0
                  THEN [rc |-> 0,
                        file |-> [ptr |-> "freed",
                                  sections |-> SubSeq(SectionNames, 1,
                                                      section_fails - 1)],
                        sections |-> section_fails,
                        options |-> [n \in OptionNames |->
                                        IF look[n] = -1 THEN -1 ELSE -2],
                        time_format |->
                            IF TimeFormatName \in option_fails THEN NULL
                            ELSE DANGLING]
                  ELSE [rc |-> 1,
                        file |-> [ptr |-> "live",
                                  sections |-> SectionNames],
                        sections |-> Len(SectionNames),
                        options |-> look,
                        time_format |->
                            IF TimeFormatName \in option_fails THEN NULL
                            ELSE DayChangeTimeFormatDefault])

\* After a config_weechat_init that has created everything: every option has
\* its default value
Init ==
    /\ \E r \in {config_weechat_init(TRUE, 0, {})} :
          /\ weechat_config_file = r.file
          /\ options = r.options
          /\ config_look_day_change_time_format = r.time_format
    /\ started = FALSE
    /\ hooks = {}
    /\ config_day_change_timer = 0
    /\ gui_infobar_refresh_timer = 0
    /\ gui_bars = <<>>
    /\ gui_keys = <<>>
    /\ gui_buffers = <<>>
    /\ gui_add_hotlist = 1
    /\ gui_current_window = 0
    /\ killed = FALSE
    /\ last = [op |-> "init", opt |-> "", name |-> NULL, value |-> NULL,
               file |-> 0, rc |-> 1, old |-> 0, cbs |-> <<>>, hooked |-> 0,
               unhooked |-> 0]

\* What the reads through dangling pointers can do in an operation: each
\* kills the process (-1) or finds a value.  Without such a pointer no read
\* is undefined.
UndefinedReads ==
    IF \/ \E n \in OptionNames : options[n] = -2
       \/ config_look_day_change_time_format = DANGLING
       \/ weechat_config_file.ptr = "freed"
    THEN [1..MaxUndefinedReads -> {-1, 0, 1}] ELSE {<<>>}

\* The state an operation starts from, with what its undefined reads do
Env(ub) == [Cur EXCEPT !.ub = ub]

\* Startup: config_weechat_read ()
ConfigWeechatRead ==
    /\ ~killed
    /\ ~started
    /\ \E f \in 1..Len(Files) :
          \E ub \in UndefinedReads :
          \E r \in {config_weechat_read(Env(ub), Files[f])} :
              /\ Len(r.s.bars) <= MaxBars
              /\ Commit(r.s, Done(r.s, "read", "", NULL, NULL, f, r.rc, 0))
    /\ started' = TRUE

\* The /set command on look_save_on_exit and look_set_title
\* The /set command on look_buffer_time_format
SetBufferTimeFormat ==
    /\ ~killed
    /\ started
    /\ \E raw \in RawValues("look_buffer_time_format") :
          \E ub \in UndefinedReads :
          \E r \in {OptionSet(Env(ub), "look_buffer_time_format", raw)} :
              Commit(r.s, Done(r.s, "set", "look_buffer_time_format", NULL,
                               raw, 0, r.rc,
                               options["look_buffer_time_format"]))
    /\ UNCHANGED started

SetTerminal ==
    /\ ~killed
    /\ started
    /\ \E name \in TerminalOptions : \E raw \in RawValues(name) :
          \E ub \in UndefinedReads :
          \E r \in {OptionSet(Env(ub), name, raw)} :
              Commit(r.s, Done(r.s, "set", name, NULL, raw, 0, r.rc,
                               options[name]))
    /\ UNCHANGED started

\* The /set command on the other options: an option is given a raw value
Set ==
    /\ ~killed
    /\ started
    /\ \E name \in OptionNames
                   \ (TerminalOptions \cup {"look_buffer_time_format"}) :
          \E raw \in RawValues(name) :
             \E ub \in UndefinedReads :
             \E r \in {OptionSet(Env(ub), name, raw)} :
                Commit(r.s, Done(r.s, "set", name, NULL, raw, 0, r.rc,
                                 options[name]))
    /\ UNCHANGED started

\* The /reload command: config_weechat_reload ()
Reload ==
    /\ ~killed
    /\ started
    /\ \E f \in 1..Len(Files) :
          \E ub \in UndefinedReads :
          \E r \in {config_weechat_reload(Env(ub), Files[f])} :
              /\ Len(r.s.bars) <= MaxBars
              /\ Commit(r.s, Done(r.s, "reload", "", NULL, NULL, f, r.rc,
                                  Len(gui_keys)))
    /\ UNCHANGED started

\* One line of the section "bars" is read, while fewer than MaxBars bars are
\* live
ReadBar ==
    /\ ~killed
    /\ Len(gui_bars) < MaxBars
    /\ \E name \in BarNames \cup {NULL} : \E value \in BarValues :
          \E s \in {[Cur EXCEPT
                          !.bars = config_weechat_read_bar(@, name, value)]} :
              Commit(s, Done(s, "read_bar", "", name, value, 0, 0,
                             Len(gui_bars)))
    /\ UNCHANGED started

\* A command or a plugin creates a bar: gui_bar_new (), with a name that no
\* live bar has
BarNew ==
    /\ ~killed
    /\ Len(gui_bars) < MaxBars
    /\ \E name \in BarNames \ {gui_bars[i].name : i \in 1..Len(gui_bars)} :
       \E items \in BarItems :
          \E s \in {[Cur EXCEPT
                          !.bars = gui_bar_new(@, name, <<"r","o","o","t">>, <<"t","o","p">>, 1, 1,
                                               items)]} :
              Commit(s, Done(s, "bar_new", "", name, items, 0, 0,
                             Len(gui_bars)))
    /\ UNCHANGED started

\* One line of the section "keys" is read
ReadKey ==
    /\ ~killed
    /\ \E name \in KeyNames \cup {NULL} : \E value \in KeyValues :
          \E s \in {[Cur EXCEPT
                          !.keys = config_weechat_read_key(@, name, value)]} :
              Commit(s, Done(s, "read_key", "", name, value, 0, 0,
                             Len(gui_keys)))
    /\ UNCHANGED started

\* Before config_weechat_init: no file, no option
InitBoot ==
    /\ weechat_config_file = [ptr |-> "NULL", sections |-> <<>>]
    /\ started = FALSE
    /\ options = [n \in OptionNames |-> -1]
    /\ hooks = {}
    /\ config_day_change_timer = 0
    /\ gui_infobar_refresh_timer = 0
    /\ gui_bars = <<>>
    /\ gui_keys = <<>>
    /\ gui_buffers = <<>>
    /\ config_look_day_change_time_format = NULL
    /\ gui_add_hotlist = 1
    /\ gui_current_window = 0
    /\ killed = FALSE
    /\ last = [op |-> "boot", rc |-> 0]

\* Startup: config_weechat_init (), with the failures of the creations as
\* inputs
ConfigWeechatInit ==
    /\ ~killed
    /\ last.op = "boot"
    /\ \E config_ok \in BOOLEAN : \E section_fails \in 0..Len(SectionNames) :
          \E option_fails \in SUBSET (OptionNames \cup {TimeFormatName}) :
             \E r \in {config_weechat_init(config_ok, section_fails,
                                            option_fails)} :
                /\ weechat_config_file' = r.file
                /\ options' = r.options
                /\ config_look_day_change_time_format' = r.time_format
                /\ last' = [op |-> "config_weechat_init", rc |-> r.rc,
                            config_ok |-> config_ok,
                            section_fails |-> section_fails,
                            option_fails |-> option_fails,
                            sections |-> r.sections]
    /\ UNCHANGED <<started, killed, gui_current_window, hooks,
                   config_day_change_timer,
                   gui_infobar_refresh_timer, gui_bars, gui_keys,
                   gui_buffers, gui_add_hotlist>>

\* The /save command: config_weechat_write (), with the failures of the file
\* as inputs
Write ==
    /\ ~killed
    /\ \E file_ok \in BOOLEAN : \E fails \in 0..(Len(gui_bars) + Len(gui_keys) + 2) :
          \E ub \in UndefinedReads :
          \E r \in {config_weechat_write(Env(ub), weechat_config_file,
                                         file_ok, fails)} :
              Commit(r.s, [op |-> "write", rc |-> r.rc, file_ok |-> file_ok,
                           fails |-> fails, written |-> Len(r.written),
                           old |-> Len(gui_bars)])
    /\ UNCHANGED started

\* A buffer is opened: gui_buffer_new ()
BufferNew ==
    /\ ~killed
    /\ Len(gui_buffers) < MaxBuffers
    /\ \E type \in {GUI_BUFFER_TYPE_FORMATED, GUI_BUFFER_TYPE_FREE} :
          /\ gui_buffers' = gui_buffer_new(gui_buffers, type)
          /\ last' = [op |-> "buffer_new", type |-> type]
    /\ UNCHANGED <<weechat_config_file, started, killed, gui_current_window,
                   options, hooks,
                   config_day_change_timer, gui_infobar_refresh_timer,
                   gui_bars, gui_keys, config_look_day_change_time_format,
                   gui_add_hotlist>>

\* Another part of the core sets or clears gui_add_hotlist
\* The gui opens its first window, which becomes the current window
WindowNew ==
    /\ ~killed
    /\ gui_current_window = 0
    /\ gui_current_window' = 1
    /\ last' = [op |-> "window_new"]
    /\ UNCHANGED <<weechat_config_file, started, killed, options, hooks,
                   config_day_change_timer, gui_infobar_refresh_timer,
                   gui_bars, gui_keys, gui_buffers, gui_add_hotlist,
                   config_look_day_change_time_format>>

AddHotlist ==
    /\ ~killed
    /\ \E flag \in {0, 1} :
          /\ gui_add_hotlist' = flag
          /\ last' = [op |-> "add_hotlist", value |-> flag]
    /\ UNCHANGED <<weechat_config_file, started, killed, gui_current_window,
                   options, hooks,
                   config_day_change_timer, gui_infobar_refresh_timer,
                   gui_bars, gui_keys, gui_buffers,
                   config_look_day_change_time_format>>

\* The /set command on the string option look_day_change_time_format: any
\* string is a value, and the option has no change callback
SetTimeFormat ==
    /\ ~killed
    /\ started
    /\ \E raw \in TimeFormats :
          /\ config_look_day_change_time_format' = raw
          /\ last' = [op |-> "set_time_format", value |-> raw]
    /\ UNCHANGED <<weechat_config_file, started, killed, gui_current_window,
                   options, hooks,
                   config_day_change_timer, gui_infobar_refresh_timer,
                   gui_bars, gui_keys, gui_buffers, gui_add_hotlist>>

\* The day-change timer fires: config_day_change_timer_cb ()
DayChangeTimer ==
    /\ ~killed
    /\ config_day_change_timer # 0
    /\ \E h \in hooks : /\ h.id = config_day_change_timer
                         /\ h.callback = "config_day_change_timer_cb"
    /\ \A i \in 1..Len(gui_buffers) : Len(gui_buffers[i].lines) < MaxLines
    /\ \E local_time \in LocalTimes : \E memory \in BOOLEAN :
          \E ub \in UndefinedReads :
          \E r \in {config_day_change_timer_cb(
                        Env(ub), config_look_day_change_time_format,
                        local_time, memory)} :
              Commit(r, [op |-> "day_change_timer",
                         local_time |-> local_time, memory |-> memory,
                         old |-> gui_add_hotlist])
    /\ UNCHANGED started

Next ==
    \/ ConfigWeechatInit \/ Write \/ BufferNew \/ AddHotlist \/ SetTerminal
    \/ SetTimeFormat \/ DayChangeTimer
    \/ ConfigWeechatRead \/ Set \/ Reload \/ ReadBar \/ BarNew \/ ReadKey
    \/ WindowNew \/ SetBufferTimeFormat

Spec == Init /\ [][Next]_vars

\* The options: startup, /set and /reload
NextOptions == ConfigWeechatRead \/ Set \/ Reload \/ WindowNew
SpecOptions == Init /\ [][NextOptions]_vars

\* The bars: lines of the section "bars" and bars created by commands
NextBars == ReadBar \/ BarNew
SpecBars == Init /\ [][NextBars]_vars

\* The keys: lines of the section "keys"
NextKeys == ReadKey
SpecKeys == Init /\ [][NextKeys]_vars

\* The save of the bars read: lines of the section "bars" and /save
NextSave == ReadBar \/ Write
SpecSave == Init /\ [][NextSave]_vars

\* The bars over reloads: startup, /reload (the lines of the section "bars"
\* of the files go to the reader) and bars created by commands
NextBarsReload == ConfigWeechatRead \/ Reload \/ BarNew \/ WindowNew
SpecBarsReload == Init /\ [][NextBarsReload]_vars

\* The day change: startup, buffers, the time format and the timer
NextDayChange ==
    \/ ConfigWeechatRead \/ BufferNew \/ AddHotlist \/ SetTimeFormat
    \/ DayChangeTimer \/ WindowNew
SpecDayChange == Init /\ [][NextDayChange]_vars

\* The options of the terminal: startup and /set
NextTerminal ==
    ConfigWeechatRead \/ SetTerminal \/ SetBufferTimeFormat \/ WindowNew
SpecTerminal == Init /\ [][NextTerminal]_vars

\* The construction: config_weechat_init with the creations that can fail
NextInit == ConfigWeechatInit
SpecInit == InitBoot /\ [][NextInit]_vars

(***************************************************************************)
(* Properties                                                              *)
(***************************************************************************)
\* What the decimal numbers given as raw values denote; 2147483648 is
\* INT_MAX + 1, above every declared maximum.
RawNumber(raw) ==
    CASE raw = <<"0">> -> 0 [] raw = <<"3">> -> 3 [] raw = <<"1","0">> -> 10
      [] raw = <<"1","1">> -> 11 [] raw = <<"-","1">> -> -1
IsRawNumber(raw) == raw \in { <<"0">>, <<"3">>, <<"1","0">>, <<"1","1">>, <<"-","1">> }
AboveIntMax(raw) == raw = <<"2","1","4","7","4","8","3","6","4","8">>

\* The ranges config_weechat_init declares
DeclaredMin(opt) == 1
DeclaredMax(opt) == IF opt = "look_scroll_amount" THEN INT_MAX ELSE 10

IntegerOptions == {"look_scroll_amount", "look_color_nicks_number"}

\* C1: a set of an Integer option with a number outside its declared range
\* ([1, INT_MAX] for look_scroll_amount, [1, 10] for look_color_nicks_number)
\* returns 0 (invalid value) and leaves the stored value as it was; a set
\* with a number inside the range succeeds and the option then has this value.
C1_IntegerRange ==
    (last.op = "set" /\ last.opt \in IntegerOptions
     /\ (IsRawNumber(last.value) \/ AboveIntMax(last.value)))
    => IF \/ AboveIntMax(last.value)
          \/ RawNumber(last.value) < DeclaredMin(last.opt)
          \/ RawNumber(last.value) > DeclaredMax(last.opt)
       THEN last.rc = 0 /\ options[last.opt] = last.old
       ELSE last.rc = 1 /\ options[last.opt] = RawNumber(last.value)

\* Scenario A, second half reached first: scroll_amount was set to 10, and
\* set("0") has then been refused.
C1_Witness ==
    /\ last.op = "set" /\ last.opt = "look_scroll_amount"
    /\ last.value = <<"0">> /\ last.rc = 0
    /\ last.old = 10 /\ options["look_scroll_amount"] = 10

NicklistPositionLabels == << <<"l","e","f","t">>, <<"r","i","g","h","t">>, <<"t","o","p">>, <<"b","o","t","t","o","m">> >>

\* C2: a set of look_nicklist_position with one of its labels left, right,
\* top, bottom succeeds and the option then has the zero-based position of the
\* label; a set with any other string (a label in another case too) returns 0
\* and leaves the stored value as it was.
C2_EnumeratedLabels ==
    (last.op = "set" /\ last.opt = "look_nicklist_position"
     /\ last.value # NULL)
    => IF \E i \in 1..4 : NicklistPositionLabels[i] = last.value
       THEN /\ last.rc = 1
            /\ NicklistPositionLabels[options[last.opt] + 1] = last.value
       ELSE last.rc = 0 /\ options[last.opt] = last.old

\* "Left" is refused after "bottom" was accepted: the option is still 3.
C2_Witness ==
    /\ last.op = "set" /\ last.opt = "look_nicklist_position"
    /\ last.value = <<"L","e","f","t">> /\ last.rc = 0
    /\ options["look_nicklist_position"] = 3

\* C3: a set of an option that has a change callback calls this callback once,
\* for this option and with the new value stored, when the set succeeds, and
\* calls no callback when it fails; look_day_change has the callback
\* config_change_day_change, which leaves the timer armed iff the new value is
\* on.
C3_CallbackOnce ==
    /\ (last.op = "set" /\ Option(last.opt).callback_change # "NULL")
       => IF last.rc # 0
          THEN last.cbs = << [callback |-> Option(last.opt).callback_change,
                              option |-> last.opt,
                              seen |-> options[last.opt]] >>
          ELSE last.cbs = <<>>
    /\ (last.op = "set" /\ last.opt = "look_day_change" /\ last.rc # 0)
       => /\ last.cbs = << [callback |-> "config_change_day_change",
                            option |-> "look_day_change",
                            seen |-> options["look_day_change"]] >>
          /\ (config_day_change_timer # 0) = (options["look_day_change"] = 1)

\* look_day_change was on and has been set to off: one callback, which saw
\* the value off and unhooked the timer.
C3_Witness ==
    /\ last.op = "set" /\ last.opt = "look_day_change" /\ last.rc = 1
    /\ last.old = 1 /\ options["look_day_change"] = 0
    /\ Len(last.cbs) = 1 /\ last.unhooked = 1

\* C4: in every state reached by startup, sets (valid or not) and reloads,
\* look_scroll_amount is in [1, INT_MAX], look_color_nicks_number is in
\* [1, 10] and look_nicklist_position is the position of one of its four
\* labels.
C4_StoredValuesValid ==
    /\ options["look_scroll_amount"] >= 1
    /\ options["look_scroll_amount"] <= INT_MAX
    /\ options["look_color_nicks_number"] >= 1
    /\ options["look_color_nicks_number"] <= 10
    /\ options["look_nicklist_position"] \in 0..3

\* A reload whose file holds "look_color_nicks_number = 11" and
\* "look_scroll_amount = 10" has run after a set of the first option to 3.
C4_Witness ==
    /\ last.op = "reload" /\ last.rc = 0 /\ last.file = 4
    /\ options["look_color_nicks_number"] = 3
    /\ options["look_scroll_amount"] = 10

DayChangeTimers == {h \in hooks : h.callback = "config_day_change_timer_cb"}

\* A step that is one call of config_change_day_change: a successful set of
\* look_day_change.
IsDayChangeCall ==
    /\ last'.op = "set" /\ last'.opt = "look_day_change" /\ last'.rc = 1
    /\ vars' # vars

\* C5: at most one day-change timer is hooked in every state; a call of the
\* callback with the option on hooks one timer if none is armed and nothing if
\* one is (so enabling twice in a row hooks exactly one), a call with the
\* option off unhooks the timer if one is armed and nothing otherwise, and
\* hooks none.
C5_OneDayChangeTimer ==
    [][ /\ Cardinality(DayChangeTimers') <= 1
        /\ (IsDayChangeCall /\ options'["look_day_change"] = 1)
           => IF config_day_change_timer # 0
              THEN hooks' = hooks /\ last'.hooked = 0 /\ last'.unhooked = 0
              ELSE /\ last'.hooked = 1 /\ last'.unhooked = 0
                   /\ Cardinality(DayChangeTimers') = 1
        /\ (IsDayChangeCall /\ options'["look_day_change"] = 0)
           => /\ last'.hooked = 0
              /\ last'.unhooked = (IF config_day_change_timer # 0 THEN 1 ELSE 0)
              /\ DayChangeTimers' = {} ]_vars

\* The option was on with its timer armed and has been set to on again: this
\* second call hooked nothing, and one timer is hooked.
C5_Witness ==
    /\ last.op = "set" /\ last.opt = "look_day_change" /\ last.rc = 1
    /\ last.old = 1 /\ options["look_day_change"] = 1
    /\ last.hooked = 0 /\ Cardinality(DayChangeTimers) = 1

\* C6: the lines config_weechat_write_bars writes for the live bars, read by
\* config_weechat_read_bar from an empty list of bars, give the same bars
\* again, in the same order (bars with an empty item list or with a semicolon
\* in it included).
C6_BarsRoundTrip ==
    ReadBarLines(<<>>, config_weechat_write_bars(gui_bars, <<"b","a","r","s">>)) = gui_bars

\* C7: the keys read from lines of the section "keys" are the keys read from
\* what config_weechat_write_keys writes for them: same keys, same functions
\* and arguments or same commands, same order.
C7_KeysRoundTrip ==
    ReadKeyLines(<<>>, config_weechat_write_keys(gui_keys, <<"k","e","y","s">>)) = gui_keys

\* Two keys are bound, one to a function with arguments and one to a command.
C7_Witness ==
    /\ last.op = "read_key" /\ Len(gui_keys) = 2
    /\ \E i \in 1..2 : gui_keys[i].function # 0 /\ gui_keys[i].args = <<"x">>
    /\ \E i \in 1..2 : gui_keys[i].command = <<"/","m","s","g"," ","a">>

\* The internal code of the key a call of the reader names
LastKeyCode == gui_keyboard_get_internal_code(last'.name)

\* C8: a call of the keys reader with a key and an empty or NULL value removes
\* the binding of this key if there is one and changes nothing if there is
\* none; the other bindings are as they were, in the same order, and
\* config_weechat_write_keys then writes no line for the key.
C8_EmptyValueUnbinds ==
    [][ (last'.op = "read_key" /\ last'.name # NULL
         /\ last'.value \in {NULL, <<>>})
        => /\ \A i \in 1..Len(gui_keys') : gui_keys'[i].key # LastKeyCode
           /\ gui_keys' = SelectSeq(gui_keys, LAMBDA k : k.key # LastKeyCode)
           /\ ((\A i \in 1..Len(gui_keys) : gui_keys[i].key # LastKeyCode)
               => gui_keys' = gui_keys)
           /\ LET lines == config_weechat_write_keys(gui_keys', <<"k","e","y","s">>)
              IN  /\ Len(lines) = Len(gui_keys') + 1
                  /\ \A i \in 2..Len(lines) :
                        /\ lines[i].key # last'.name
                        /\ gui_keyboard_get_internal_code(lines[i].key)
                           # LastKeyCode ]_vars

\* Two keys were bound and the first has been unbound by an empty value.
C8_Witness ==
    /\ last.op = "read_key" /\ last.name = AllKeyNames[1]
    /\ last.value = <<>> /\ last.old = 2 /\ Len(gui_keys) = 1

\* C9: no two bindings have the same key; a call of the keys reader with a key
\* and a non-empty value leaves the bindings of the other keys as they were
\* and exactly one binding of this key, the new one.
C9_OneBindingPerKey ==
    [][ /\ \A i, j \in 1..Len(gui_keys') :
              gui_keys'[i].key = gui_keys'[j].key => i = j
        /\ (last'.op = "read_key" /\ last'.name # NULL
            /\ last'.value \notin {NULL, <<>>})
           => /\ SelectSeq(gui_keys', LAMBDA k : k.key # LastKeyCode)
                 = SelectSeq(gui_keys, LAMBDA k : k.key # LastKeyCode)
              /\ Len(SelectSeq(gui_keys', LAMBDA k : k.key = LastKeyCode)) = 1
              /\ \A i \in 1..Len(gui_keys') :
                    gui_keys'[i].key = LastKeyCode
                    => IF gui_keys'[i].function = 0
                       THEN gui_keys'[i].command = last'.value
                       ELSE /\ gui_keys'[i].command = NULL
                            /\ HasPrefixAt(
                                   last'.value, 1,
                                   gui_key_functions[gui_keys'[i].function])
      ]_vars

\* Two keys were bound, and one of them has been bound again, to "/quit":
\* there are still two bindings.
C9_Witness ==
    /\ last.op = "read_key" /\ last.value = <<"/","q","u","i","t">>
    /\ last.old = 2 /\ Len(gui_keys) = 2
    /\ gui_keys[2].command = <<"/","q","u","i","t">>

\* The fields of the value of a line of the section "bars"
BarFields(value) == string_explode(value, {";"})

\* The string is a base-10 integer and nothing else: white space that strtol
\* skips, a sign or none, and digits up to the end.
IsBase10Integer(s) ==
    \E b \in 1..Len(s) :
        /\ \A i \in 1..(b - 1) : s[i] \in isspace
        /\ LET d == IF s[b] \in {"-", "+"} THEN b + 1 ELSE b
           IN  d <= Len(s) /\ \A i \in d..Len(s) : IsDigit(s[i])

BarLineWellFormed(name, value) ==
    /\ name # NULL
    /\ value \notin {NULL, <<>>}
    /\ Len(BarFields(value)) = 5
    /\ IsBase10Integer(BarFields(value)[3])

\* C10: a call of the bars reader creates a bar only if the name is given, the
\* value has exactly five fields separated by semicolons and the third is a
\* base-10 integer up to its end, and the bar is then the last one, with this
\* name; for any other input the bars are as they were.
C10_MalformedBarDropped ==
    [][ last'.op = "read_bar"
        => /\ gui_bars' # gui_bars
              => /\ BarLineWellFormed(last'.name, last'.value)
                 /\ Len(gui_bars') = Len(gui_bars) + 1
                 /\ SubSeq(gui_bars', 1, Len(gui_bars)) = gui_bars
                 /\ gui_bars'[Len(gui_bars')].name = last'.name
           /\ ~BarLineWellFormed(last'.name, last'.value)
              => gui_bars' = gui_bars ]_vars

\* A line whose size is "1x" has been read while one bar was live, and one bar
\* is live.
C10_Witness ==
    /\ last.op = "read_bar" /\ last.name = AllBarNames[2]
    /\ last.value = <<"r","o","o","t",";","t","o","p",";","1","x",";","1",";","a">>
    /\ last.old = 1 /\ Len(gui_bars) = 1

\* C11: when a reload starts to read the file again, the teardown has released
\* every key and every bar that was live before the reload.
C11_TeardownReleasesRecords ==
    [][ last'.op = "reload"
        => /\ ReloadTeardown(Cur).keys = <<>>
           /\ ReloadTeardown(Cur).bars = <<>> ]_vars

\* C12: a reload of a file that is not there returns -1, which is neither 0
\* nor -2, leaves every option with the value it had (no default is put
\* back), runs no change callback and touches no timer.
C12_ReloadNotFound ==
    [][ (last'.op = "reload" /\ ~Files[last'.file].exists)
        => /\ last'.rc = -1
           /\ last'.rc \notin {0, -2}
           /\ options' = options
           /\ last'.cbs = <<>>
           /\ last'.hooked = 0 /\ last'.unhooked = 0
           /\ hooks' = hooks ]_vars

\* A file that is not there has been reloaded while options did not have their
\* default values.
C12_Witness ==
    /\ last.op = "reload" /\ ~Files[last.file].exists /\ last.rc = -1
    /\ options["look_scroll_amount"] = 10
    /\ options["look_day_change"] = 0

\* A line of an option section whose value is a number outside the range
\* config_weechat_init declares for the option
InvalidScalarLine(line) ==
    /\ line.opt \in IntegerOptions
    /\ IsRawNumber(line.value)
    /\ \/ RawNumber(line.value) < DeclaredMin(line.opt)
       \/ RawNumber(line.value) > DeclaredMax(line.opt)

\* The value a valid line of the files gives its option
LineValue(line) ==
    IF line.opt \in IntegerOptions THEN RawNumber(line.value)
    ELSE IF line.opt = "look_nicklist_position"
    THEN (CHOOSE i \in 1..4 : NicklistPositionLabels[i] = line.value) - 1
    ELSE IF line.value = <<"o","n">> THEN 1 ELSE 0

LinesOf(lines, section) == SelectSeq(lines, LAMBDA l : l.section = section)

\* C13: in a reload of a file with an option line whose value is out of range,
\* the option of this line keeps its value and its callback does not run
\* (the file has no other line for it), every later valid line of a declared
\* option is applied with its callback, the later lines of "bars" and "keys"
\* reach their readers, and the reload returns 0.  The reload is one that
\* returns: no callback of it is run without a current window, which kills
\* the process.
C13_InvalidLineSkipped ==
    [][ (last'.op = "reload" /\ Files[last'.file].exists /\ ~killed')
        => LET lines == Files[last'.file].lines
           IN  \A i \in 1..Len(lines) :
                  InvalidScalarLine(lines[i])
                  => /\ last'.rc = 0
                     /\ options'[lines[i].opt] = options[lines[i].opt]
                     /\ \A c \in 1..Len(last'.cbs) :
                           last'.cbs[c].option # lines[i].opt
                     /\ \A j \in (i + 1)..Len(lines) :
                           (lines[j].opt \in OptionNames
                            /\ ~InvalidScalarLine(lines[j]))
                           => /\ options'[lines[j].opt] = LineValue(lines[j])
                              /\ \E c \in 1..Len(last'.cbs) :
                                    /\ last'.cbs[c].option = lines[j].opt
                                    /\ last'.cbs[c].seen = LineValue(lines[j])
                     /\ gui_keys' = ReadKeyLines(<<>>, LinesOf(lines, "keys"))
                     /\ gui_bars'
                        = ReadBarLines(gui_bars, LinesOf(lines, "bars"))
      ]_vars

\* The file with "look_scroll_amount = 0" first has been reloaded while the
\* option was 10 and the day-change timer was hooked: the option is still 10,
\* the later line "look_day_change = off" has unhooked the timer, and the bar
\* and the key of the later lines are live.
C13_Witness ==
    /\ last.op = "reload" /\ last.file = 3 /\ last.rc = 0 /\ ~killed
    /\ options["look_scroll_amount"] = 10
    /\ options["look_day_change"] = 0 /\ last.unhooked = 1
    /\ Len(gui_bars) = 1 /\ Len(gui_keys) = 1

\* C14: config_weechat_init returns 0 when config_file_new fails, when a
\* config_file_new_section fails or when a config_file_new_option fails, and
\* returns 1 only when the eight sections and every declared option exist.
C14_InitFailure ==
    last.op = "config_weechat_init"
    => /\ (~last.config_ok \/ last.section_fails # 0
           \/ last.option_fails # {})
          => last.rc = 0
       /\ last.rc = 1
          => /\ weechat_config_file = [ptr |-> "live",
                                       sections |-> SectionNames]
             /\ Len(SectionNames) = 8
             /\ \A n \in OptionNames : options[n] # -1
             /\ config_look_day_change_time_format # NULL

\* C15: when a config_file_write_line called by the writer of the bars or of
\* the keys fails during a save, config_weechat_write returns a negative
\* number.
C15_WriteFailureSurfaced ==
    (last.op = "write" /\ last.fails > 0) => last.rc < 0

\* The text between the quotes of the line of a binding
KeyLineText(k) ==
    IF k.function # 0
    THEN gui_key_functions[k.function]
         \o (IF k.args # NULL THEN <<" ">> \o k.args ELSE <<>>)
    ELSE k.command

\* C16: config_weechat_write_keys writes the header of the section and then
\* one line for every live binding, in the order of the list: the line has the
\* name of the key and, in quotes, the name of the function of the binding,
\* followed by a space and the arguments only if it has arguments, or the
\* command of the binding as it is.
C16_KeysWriterLines ==
    LET lines == config_weechat_write_keys(gui_keys, <<"k","e","y","s">>)
    IN  /\ Len(lines) = Len(gui_keys) + 1
        /\ lines[1] = [key |-> <<"k","e","y","s">>, value |-> NULL]
        /\ \A i \in 1..Len(gui_keys) :
              /\ lines[i + 1].key \in KeyNames
              /\ gui_keyboard_get_internal_code(lines[i + 1].key)
                 = gui_keys[i].key
              /\ lines[i + 1].value
                 = <<"\"">> \o KeyLineText(gui_keys[i]) \o <<"\"">>

\* Two keys are bound, the first to a function without arguments and the
\* second to a command with a space in it.
C16_Witness ==
    /\ last.op = "read_key" /\ Len(gui_keys) = 2
    /\ gui_keys[1].function # 0 /\ gui_keys[1].args = NULL
    /\ gui_keys[2].function = 0 /\ gui_keys[2].command = <<"f","o","o"," ","b","a","r">>

\* The notice of a day change on Sunday 1 November 2026 and on Friday
\* 30 October 2026, at 0 hours 0, for the four formats
DayChangedNotice(format, local_time) ==
    <<"\t", "\t">> \o <<"D","a","y"," ","c","h","a","n","g","e","d"," ","t","o"," ">>
    \o (IF local_time.tm_mday = 1
        THEN CASE format = <<"%","d","/","%","Y">> -> <<"0","1","/","2","0","2","6">>
               [] format = <<"%","-","e"," ","%","B"," ","%","H",":","%","M">> -> <<"1"," ","N","o","v","e","m","b","e","r"," ","0","0",":","0","0">>
               [] format = <<"%","1","0","2","4","d">>
                  -> [k \in 1..1024 |-> IF k = 1024 THEN "1" ELSE "0"]
               [] OTHER -> <<"S","u","n",","," ","0","1"," ","N","o","v"," ","2","0","2","6">>
        ELSE CASE format = <<"%","d","/","%","Y">> -> <<"3","0","/","2","0","2","6">>
               [] format = <<"%","-","e"," ","%","B"," ","%","H",":","%","M">> -> <<"3","0"," ","O","c","t","o","b","e","r"," ","0","0",":","0","0">>
               [] format = <<"%","1","0","2","4","d">>
                  -> [k \in 1..1024 |-> IF k = 1023 THEN "3" ELSE "0"]
               [] OTHER -> <<"F","r","i",","," ","3","0"," ","O","c","t"," ","2","0","2","6">>)

\* C17: when the day-change timer fires, every buffer of type formated has
\* one line more, the notice "Day changed to" with the time in the format
\* look_day_change_time_format has then, and every other buffer has the lines
\* it had; no buffer is opened or closed.
C17_DayChangedNotice ==
    [][ last'.op = "day_change_timer"
        => /\ Len(gui_buffers') = Len(gui_buffers)
           /\ \A i \in 1..Len(gui_buffers) :
                 /\ gui_buffers'[i].type = gui_buffers[i].type
                 /\ IF gui_buffers[i].type = GUI_BUFFER_TYPE_FORMATED
                    THEN gui_buffers'[i].lines
                         = Append(gui_buffers[i].lines,
                                  DayChangedNotice(
                                      config_look_day_change_time_format,
                                      last'.local_time))
                    ELSE gui_buffers'[i].lines = gui_buffers[i].lines ]_vars

\* C18: every live bar has a size that is 0 or more; a line with a negative
\* size makes no bar with a negative size.
C18_BarSizeNonNegative ==
    \A i \in 1..Len(gui_bars) : gui_bars[i].size >= 0

\* C19: no two live bars have the same name: a step of the bars reader (a
\* call of it, or a startup read or a reload that hands it the lines of the
\* section "bars" of a file) that starts with no two live bars of the same
\* name ends with no two live bars of the same name.
C19_BarNamesUnique ==
    [][ (/\ last'.op \in {"read_bar", "read", "reload"}
         /\ \A i, j \in 1..Len(gui_bars) :
                gui_bars[i].name = gui_bars[j].name => i = j)
        => \A i, j \in 1..Len(gui_bars') :
              gui_bars'[i].name = gui_bars'[j].name => i = j ]_vars

\* C20: once config_weechat_read has run at startup, whatever it returned, and
\* after any sets and reloads, the day-change timer is hooked if and only if
\* look_day_change is on.
C20_TimerIffDayChange ==
    started
    => ((config_day_change_timer # 0) <=> (options["look_day_change"] = 1))

\* The keys after each line of the file during a reload that starts with the
\* keys given: the keys after the first n lines, for every n
KeysDuringReload(lines) ==
    [n \in 0..Len(lines) |->
        ReadKeyLines(<<>>, LinesOf(SubSeq(lines, 1, n), "keys"))]

\* C21: after a reload of a file that is there, the keys are those the lines
\* of its section "keys" give, in their order, from no key at all; a key that
\* was bound before and has no line in the file is bound no more; after no
\* line of the file are two bindings of one key live.  The reload is one that
\* returns: no callback of it is run without a current window, which kills
\* the process.
C21_ReloadRebuildsKeys ==
    [][ (last'.op = "reload" /\ Files[last'.file].exists /\ ~killed')
        => LET lines == Files[last'.file].lines
           IN  /\ gui_keys' = KeysDuringReload(lines)[Len(lines)]
               /\ \A i \in 1..Len(gui_keys) :
                     (\A l \in 1..Len(lines) :
                         lines[l].section = "keys"
                         => gui_keyboard_get_internal_code(lines[l].key)
                            # gui_keys[i].key)
                     => \A j \in 1..Len(gui_keys') :
                           gui_keys'[j].key # gui_keys[i].key
               /\ \A n \in 0..Len(lines) :
                     \A i, j \in 1..Len(KeysDuringReload(lines)[n]) :
                        KeysDuringReload(lines)[n][i].key
                        = KeysDuringReload(lines)[n][j].key => i = j
               /\ \A i, j \in 1..Len(gui_keys') :
                     gui_keys'[i].key = gui_keys'[j].key => i = j ]_vars

\* The empty file has been reloaded while a key was bound: no key is bound.
C21_Witness ==
    /\ last.op = "reload" /\ last.file = 2 /\ last.rc = 0 /\ ~killed
    /\ last.old = 1 /\ gui_keys = <<>>

\* C22: a reload of a file that is not there returns -1 and leaves no key
\* bound; keys are bound again only by a read or a reload of a file that is
\* there.
C22_NotFoundStillTearsDown ==
    [][ /\ (last'.op = "reload" /\ ~Files[last'.file].exists)
           => last'.rc = -1 /\ gui_keys' = <<>>
        /\ (gui_keys = <<>> /\ gui_keys' # <<>>)
           => /\ last'.op \in {"read", "reload"}
              /\ Files[last'.file].exists
              /\ last'.rc = 0 ]_vars

\* A file that is not there has been reloaded while a key was bound: no key
\* is bound.
C22_Witness ==
    /\ last.op = "reload" /\ ~Files[last.file].exists /\ last.rc = -1
    /\ last.old = 1 /\ gui_keys = <<>>

\* C23: config_day_change_timer is NULL or the id of a hooked day-change
\* timer; a set of look_day_change to off while the timer is hooked unhooks
\* this one timer and makes config_day_change_timer NULL in the same step,
\* and a set to off while it is NULL unhooks nothing and leaves the timers as
\* they are.
C23_DisableUnhooksAndClears ==
    [][ /\ config_day_change_timer' # 0
           => \E h \in hooks' :
                 /\ h.id = config_day_change_timer'
                 /\ h.callback = "config_day_change_timer_cb"
        /\ (last'.op = "set" /\ last'.opt = "look_day_change"
            /\ last'.rc # 0 /\ options'["look_day_change"] = 0)
           => IF config_day_change_timer # 0
              THEN /\ config_day_change_timer' = 0
                   /\ last'.unhooked = 1 /\ last'.hooked = 0
                   /\ hooks' = {h \in hooks : h.id # config_day_change_timer}
              ELSE /\ config_day_change_timer' = 0
                   /\ last'.unhooked = 0 /\ last'.hooked = 0
                   /\ hooks' = hooks ]_vars

\* look_day_change was off, with no timer, and has been set to off again:
\* nothing is unhooked.
C23_Witness ==
    /\ last.op = "set" /\ last.opt = "look_day_change" /\ last.rc = 1
    /\ last.value = <<"o","f","f">> /\ last.old = 0
    /\ options["look_day_change"] = 0
    /\ config_day_change_timer = 0 /\ last.unhooked = 0

\* C24: a firing of the day-change timer leaves config_day_change_timer, the
\* hooked timers and the value of every option as they were.
C24_FiringKeepsTimerAndOptions ==
    [][ last'.op = "day_change_timer"
        => /\ config_day_change_timer' = config_day_change_timer
           /\ hooks' = hooks
           /\ gui_infobar_refresh_timer' = gui_infobar_refresh_timer
           /\ options' = options
           /\ config_look_day_change_time_format'
              = config_look_day_change_time_format ]_vars

\* The timer has fired with a formated buffer open, and is still the one
\* hooked timer for the day change.
C24_Witness ==
    /\ last.op = "day_change_timer" /\ config_day_change_timer # 0
    /\ Cardinality({h \in hooks :
                       h.callback = "config_day_change_timer_cb"}) = 1
    /\ Len(gui_buffers) = 1
    /\ gui_buffers[1].type = GUI_BUFFER_TYPE_FORMATED
    /\ Len(gui_buffers[1].lines) = 1

\* C28: a firing of the day-change timer leaves gui_add_hotlist at the value
\* it had before the firing, 0 or 1.
C28_AddHotlistRestored ==
    last.op = "day_change_timer" => gui_add_hotlist = last.old

\* C25: a set of look_set_title that succeeds makes its callback set the title
\* of the window when the new value is on and reset it when the new value is
\* off.
C25_TitleFollowsOption ==
    (last.op = "set" /\ last.opt = "look_set_title" /\ last.rc # 0)
    => /\ options["look_set_title"] = 1
          => last.calls = << [function |-> "gui_window_title_set"] >>
       /\ options["look_set_title"] = 0
          => last.calls = << [function |-> "gui_window_title_reset"] >>

\* C26: a set of look_save_on_exit that succeeds makes its callback print the
\* warning about /save when the new value is off, and print nothing when the
\* new value is on.
C26_SaveOnExitWarning ==
    (last.op = "set" /\ last.opt = "look_save_on_exit" /\ last.rc # 0)
    => /\ options["look_save_on_exit"] = 0
          => last.calls = << [function |-> "gui_chat_printf",
                              message |-> SaveOnExitWarning] >>
       /\ options["look_save_on_exit"] = 1 => last.calls = <<>>

InfobarTimers ==
    {h \in hooks : h.callback = "gui_infobar_refresh_timer_cb"}

\* The calls of config_change_infobar_seconds an operation has made
InfobarCalls(rec) ==
    Len(SelectSeq(rec.cbs,
                  LAMBDA c : c.callback = "config_change_infobar_seconds"))

\* C27: once config_change_infobar_seconds has been called, one infobar
\* refresh timer is hooked, the one gui_infobar_refresh_timer names, with a
\* period of 1 second when look_infobar_seconds is on and of 60 seconds when
\* it is off; every call unhooks the timer the call before it had hooked.
C27_OneInfobarTimer ==
    [][ /\ gui_infobar_refresh_timer' # 0
           => InfobarTimers'
              = { [id |-> gui_infobar_refresh_timer',
                   interval |-> IF options'["look_infobar_seconds"] = 1
                                THEN 1000 ELSE 60000,
                   callback |-> "gui_infobar_refresh_timer_cb"] }
        /\ gui_infobar_refresh_timer' = 0 => InfobarTimers' = {}
        /\ (last'.op \in {"read", "set", "reload"} /\ InfobarCalls(last') > 0)
           => /\ gui_infobar_refresh_timer' # 0
              /\ last'.hooked >= InfobarCalls(last')
              /\ gui_infobar_refresh_timer # 0
                 => /\ last'.unhooked >= InfobarCalls(last')
                    /\ \A h \in InfobarTimers : h \notin hooks' \/
                          h.id = gui_infobar_refresh_timer' ]_vars

\* look_infobar_seconds was on, with its timer hooked, and has been set to
\* off: one timer was unhooked and one hooked, with a period of 60 seconds.
C27_Witness ==
    /\ last.op = "set" /\ last.opt = "look_infobar_seconds" /\ last.rc = 1
    /\ last.old = 1 /\ options["look_infobar_seconds"] = 0
    /\ last.hooked = 1 /\ last.unhooked = 1
    /\ \E h \in hooks : /\ h.id = gui_infobar_refresh_timer
                        /\ h.interval = 60000

\* C29: when config_weechat_init has returned 0, weechat_config_file is NULL
\* or a live configuration, never the pointer to a configuration that
\* config_file_free has released.
C29_NoFreedConfigAfterFailure ==
    (last.op = "config_weechat_init" /\ last.rc = 0)
    => weechat_config_file.ptr \in {"NULL", "live"}

\* C30: a call of the bars reader leaves every live bar as it was and where it
\* was, for an empty value too, and a call that creates a bar puts it after
\* all of them; the lines config_weechat_write_bars then writes for the bars
\* that were live are the lines it wrote before.
C30_ReaderKeepsBars ==
    [][ last'.op = "read_bar"
        => /\ Len(gui_bars') \in {Len(gui_bars), Len(gui_bars) + 1}
           /\ SubSeq(gui_bars', 1, Len(gui_bars)) = gui_bars
           /\ last'.value \in {NULL, <<>>} => gui_bars' = gui_bars
           /\ SubSeq(config_weechat_write_bars(gui_bars', <<"b","a","r","s">>), 1,
                     Len(gui_bars) + 1)
              = config_weechat_write_bars(gui_bars, <<"b","a","r","s">>) ]_vars

\* The reader has been called with the name of the one live bar and an empty
\* value: the bar is live.
C30_Witness ==
    /\ last.op = "read_bar" /\ last.value = <<>>
    /\ last.old = 1 /\ Len(gui_bars) = 1
    /\ gui_bars[1].name = last.name

====
